---- MODULE Spec2Model ----
(***************************************************************************)
(* A model of jcomeauictx/blockparser: the chain assembler of              *)
(* blockparse.py (nextblock, connect, listchain) and the script            *)
(* interpreter of script.py (run and its opcode routines).                 *)
(*                                                                         *)
(* Block hashes are natural numbers; 0 is the displayed all-zero hash that *)
(* the genesis block points at.  A chunk is identified by the hash of its  *)
(* header, and the header's previous-hash field is Previous(hash).         *)
(***************************************************************************)
EXTENDS Integers, Sequences, FiniteSets, TLC

VARIABLES
    \* ---- blockparse.py: module globals and the locals of nextblock
    BLOCKCHAIN,     \* dict: hash -> block (hash, previous, children)
    CHAINS,         \* dict keys in insertion order: the null block and the orphans
    BLOCKS,         \* main chain, as hashes, in order
    last,           \* index of the last block returned
    available,      \* local of nextblock, kept across a yield
    pc,             \* where the generator stands
    yielded,        \* what the generator has yielded so far, in order
    \* ---- the input the block files hold
    forkAt,         \* hash the first block of the competing branch points at
    universe,       \* hashes of the blocks the files may deliver
    dupBudget,      \* how many repeated chunks the files may hold
    orphanBudget,   \* how many blocks may wait for a parent at once
    dups,           \* repeated chunks delivered so far
    inorder,        \* every chunk so far was the next block of the main line
    \* ---- script.py: the arguments and locals of run
    input,          \* the call: which script, on which stack, for which input
    reference,      \* kwargs['reference']: copy of the whole script
    parsed,         \* the opcode positions parse() found in the script
    script,         \* kwargs['script']: the bytes not yet consumed
    stack,          \* the data stack
    altstack,       \* kwargs['altstack']
    ifstack,        \* kwargs['ifstack']
    mark,           \* kwargs['mark']
    opcode,         \* kwargs['opcode']: the opcode dispatched last
    outcome,        \* "idle", "running", "returned" or "raised"
    error,          \* the exception that ended the run, caught or not
    txnew,          \* the enclosing transaction
    txindex,        \* index of the input being validated
    sigframe,       \* locals of the last op_checksig that built a preimage
    \* ---- a call of one of the conversion functions
    call,           \* the function, its argument, and what it returned
    \* ---- blockparse.py: the locals of nextchunk, and the files it reads
    reader,         \* arguments and locals of the generator, and where it stands
    disk,           \* the block files: the bytes written and the zeroes after
    writer,         \* the process appending to the last file: the chunks it
                    \* has stored and has left, and how often it has written
    served,         \* the chunks nextchunk has yielded so far, in order
    \* ---- script.py: testall and the search it starts on a cache miss
    files,          \* the chunks the block files hold, and their transactions
    testall,        \* the locals of testall and of its stream of transactions
    search          \* the locals of silent_search and of its own stream

chainvars == <<BLOCKCHAIN, CHAINS, BLOCKS, last, available, pc, yielded,
               forkAt, universe, dupBudget, orphanBudget, dups, inorder>>

scriptvars == <<input, reference, parsed, script, stack, altstack, ifstack,
                mark, opcode, outcome, error, txnew, txindex, sigframe>>

readervars == <<reader, disk, writer, served>>

drivervars == <<files, testall, search>>

vars == <<chainvars, scriptvars, call, readervars, drivervars>>

----------------------------------------------------------------------------
\* Bounds of the model
MainLen == 8
ForkLen == 8
MaxForkAt == 2
MaxDup == 1
MaxOrphans == 1
MaxBranch == 2
MaxFailLen == 3
MaxSigAtoms == 2
MaxInputs == 2
PadLen == 250
MaxDepth == 7
MaxShapeLen == 2
\* opcodes after the opening of a branch, and pushes before an operation
MaxBody == 2
MaxOperands == 2
\* transactions the cache is bounded to
MaxCache == 3

\* Program constants
NULLBLOCK == 0
CONFIRMATIONS == 6
NoPrevious == -1

----------------------------------------------------------------------------
\* Sequence helpers

Range(s) == {s[i] : i \in DOMAIN s}

Max(a, b) == IF a >= b THEN a ELSE b

\* the value of an expression computed once: each call below is made once
\* and its result bound to a name, as the assignments of the code do
Only(results) == CHOOSE result \in results : TRUE

\* nextchunk has not been called
ReaderIdle ==
    /\ reader = [pc |-> "idle"]
    /\ disk = <<>>
    /\ writer = [todo |-> <<>>, partial |-> <<>>, wrote |-> 0]
    /\ served = <<>>

\* testall has not been called
DriverIdle ==
    /\ files = [chunks |-> <<>>]
    /\ testall = [pc |-> "idle"]
    /\ search = [pc |-> "idle"]

\* list.remove(x): drops the first occurrence of x
RemoveFirst(s, x) ==
    LET i == CHOOSE k \in DOMAIN s : s[k] = x /\ \A j \in 1..(k - 1) : s[j] /= x
    IN  SubSeq(s, 1, i - 1) \o SubSeq(s, i + 1, Len(s))

\* dict[key] = value
Put(dict, key, value) ==
    [k \in DOMAIN dict \cup {key} |-> IF k = key THEN value ELSE dict[k]]

----------------------------------------------------------------------------
\* The headers the files hold: the main line 1..MainLen, each block pointing
\* at the one before it, and a competing branch MainLen+1..MainLen+ForkLen
\* whose first block points at forkAt.

MainLine == 1..MainLen
ForkLine == (MainLen + 1)..(MainLen + ForkLen)

Previous(h) == IF h = MainLen + 1 THEN forkAt ELSE h - 1

\* blockheader(rawblock), with children = [] as nextblock sets it
blockheader(h) == [hash |-> h, previous |-> Previous(h), children |-> <<>>]

\* the fake null block nextblock starts from: it has no 'previous'
NullNode == [hash |-> NULLBLOCK, previous |-> NoPrevious, children |-> <<>>]

----------------------------------------------------------------------------
\* connect(block, blocks)

\* a variant that appends the new child instead of putting it in front
InsertChildLast(children, hash) == Append(children, hash)

\* previous['children'].insert(0, block['hash'])
InsertChild(children, hash) == <<hash>> \o children

\* a variant that hooks every block into the null block
connect_at_root(block, blocks) ==
    [blocks EXCEPT ![NULLBLOCK].children = InsertChild(@, block.hash)]

connect(block, blocks) ==
    LET previous == blocks[block.previous]
        removed  == IF block.hash \in Range(previous.children)
                    THEN RemoveFirst(previous.children, block.hash)
                    ELSE previous.children
    IN  [blocks EXCEPT ![block.previous].children =
                           InsertChild(removed, block.hash)]

\* listchain(root, blockchain): [ok, blocks]; ok = FALSE is the ValueError
RECURSIVE walkchain(_, _, _)
walkchain(block, blocks, blockchain) ==
    IF Len(block.children) = 0
    THEN [ok |-> TRUE, blocks |-> blocks]
    ELSE LET child == blockchain[block.children[1]]
         IN  IF child.previous = block.hash
             THEN walkchain(child, Append(blocks, child.hash), blockchain)
             ELSE [ok |-> FALSE, blocks |-> blocks]

listchain(root, blockchain) ==
    walkchain(root,
              IF root.previous /= NoPrevious THEN <<root.hash>> ELSE <<>>,
              blockchain)

\* "consolidate chains": one pass over list(CHAINS)
\* a variant that never looks at the orphans again
ShouldConnectNever(key, blockchain) == FALSE

ShouldConnect(key, blockchain) ==
    key /= NULLBLOCK /\ blockchain[key].previous \in DOMAIN blockchain

\* a variant that leaves a connected orphan among the chains
KeepKey(chains, key) == chains

\* CHAINS.pop(key)
PopKey(chains, key) == SelectSeq(chains, LAMBDA k : k /= key)

RECURSIVE consolidate(_, _, _, _)
consolidate(keys, chains, blockchain, changed) ==
    IF keys = <<>>
    THEN [chains |-> chains, blockchain |-> blockchain, changed |-> changed]
    ELSE LET key == Head(keys)
         IN  IF ShouldConnect(key, blockchain)
             THEN Only({consolidate(Tail(keys), popped, connected, TRUE) :
                            popped \in {PopKey(chains, key)},
                            connected \in {connect(blockchain[key],
                                                   blockchain)}})
             ELSE consolidate(Tail(keys), chains, blockchain, changed)

\* a variant that counts the block itself as one of its confirmations
AvailableEarly(blocks) == Len(blocks) - CONFIRMATIONS

\* len(BLOCKS) - CONFIRMATIONS - 1
Available(blocks) == Len(blocks) - CONFIRMATIONS - 1

\* a variant that yields the newest confirmed block instead of the next one
YieldIndexNewest(lastnow, availablenow) == availablenow

\* the block the while loop yields once last has been advanced
YieldIndex(lastnow, availablenow) == lastnow

\* The body of the for loop of nextblock up to the while loop, on the
\* globals as they are handed in
ingest(blockchain, chainkeys, h) ==
    LET block    == blockheader(h)
        stored   == Put(blockchain, h, block)
        known    == block.previous \in DOMAIN stored
        linked   == IF known THEN connect(block, stored) ELSE stored
        chains   == IF known \/ h \in Range(chainkeys) THEN chainkeys
                    ELSE Append(chainkeys, h)
        merged   == consolidate(chains, chains, linked, known)
        chain    == listchain(merged.blockchain[NULLBLOCK], merged.blockchain)
    IN  [blockchain |-> merged.blockchain, chains |-> merged.chains,
         changed |-> merged.changed, chain |-> chain]

Ingest(h) == ingest(BLOCKCHAIN, CHAINS, h)

CanDeliver(h) ==
    /\ h \in universe
    /\ h \in DOMAIN BLOCKCHAIN => dups < dupBudget
    /\ Len(Ingest(h).chains) - 1 <= orphanBudget

\* one turn of `for chunk in chunks:`, up to and including the first
\* yield, if any
Deliver(h) ==
    \E r \in {Ingest(h)} :
        /\ BLOCKCHAIN' = r.blockchain
        /\ CHAINS' = r.chains
        /\ IF ~r.changed
           THEN UNCHANGED <<BLOCKS, available, last, yielded, pc>>
           ELSE IF ~r.chain.ok
           THEN /\ pc' = "raised"
                /\ UNCHANGED <<BLOCKS, available, last, yielded>>
           ELSE /\ BLOCKS' = r.chain.blocks
                /\ available' = Available(r.chain.blocks)
                /\ IF available' >= 0 /\ last < available'
                   THEN /\ last' = last + 1
                        /\ yielded' = Append(yielded,
                               BLOCKS'[YieldIndex(last', available') + 1])
                        /\ pc' = "yielded"
                   ELSE UNCHANGED <<last, yielded, pc>>

\* for chunk in chunks: ... with the chunk the stream delivers next
NextChunk(h) ==
    /\ pc = "fetch"
    /\ CanDeliver(h)
    /\ Deliver(h)
    /\ dups' = IF h \in DOMAIN BLOCKCHAIN THEN dups + 1 ELSE dups
    /\ inorder' = (inorder /\ h \in MainLine
                   /\ h = Cardinality(DOMAIN BLOCKCHAIN))
    /\ UNCHANGED <<forkAt, universe, dupBudget, orphanBudget>>
    /\ UNCHANGED <<scriptvars, call, readervars, drivervars>>

\* the consumer asks for the next block: the while loop goes on
Resume ==
    /\ pc = "yielded"
    /\ IF available >= 0 /\ last < available
       THEN /\ last' = last + 1
            /\ yielded' = Append(yielded,
                                 BLOCKS[YieldIndex(last', available) + 1])
            /\ pc' = "yielded"
       ELSE /\ pc' = "fetch"
            /\ UNCHANGED <<last, yielded>>
    /\ UNCHANGED <<BLOCKCHAIN, CHAINS, BLOCKS, available,
                   forkAt, universe, dupBudget, orphanBudget, dups, inorder>>
    /\ UNCHANGED <<scriptvars, call, readervars, drivervars>>

\* no script is being run
ScriptIdle ==
    /\ input = [kind |-> "none"]
    /\ reference = <<>>
    /\ parsed = <<>>
    /\ script = <<>>
    /\ stack = <<>>
    /\ altstack = <<>>
    /\ ifstack = <<>>
    /\ mark = <<>>
    /\ opcode = -1
    /\ outcome = "idle"
    /\ error = ""
    /\ txnew = <<>>
    /\ txindex = 0
    /\ sigframe = [built |-> FALSE]

\* nextblock before its first chunk
InitNextblock ==
    /\ BLOCKCHAIN = [h \in {NULLBLOCK} |-> NullNode]
    /\ CHAINS = <<NULLBLOCK>>
    /\ BLOCKS = <<>>
    /\ last = -1
    /\ available = -1
    /\ pc = "fetch"
    /\ yielded = <<>>
    /\ dups = 0
    /\ inorder = TRUE

\* a stream with a competing branch, repeated chunks and orphans
InitChain ==
    /\ InitNextblock
    /\ ScriptIdle
    /\ call = [fn |-> "none"]
    /\ ReaderIdle
    /\ DriverIdle
    /\ forkAt \in 0..MaxForkAt
    /\ universe = MainLine \cup ForkLine
    /\ dupBudget = MaxDup
    /\ orphanBudget = MaxOrphans

\* the chunks of a fork-free chain, each once, in any order
InitPerm ==
    /\ InitNextblock
    /\ ScriptIdle
    /\ call = [fn |-> "none"]
    /\ ReaderIdle
    /\ DriverIdle
    /\ forkAt = 0
    /\ universe = MainLine
    /\ dupBudget = 0
    /\ orphanBudget = MainLen

NextChain ==
    \/ \E h \in MainLine \cup ForkLine : NextChunk(h)
    \/ Resume

SpecChain == InitChain /\ [][NextChain]_vars
SpecPerm == InitPerm /\ [][NextChain]_vars

----------------------------------------------------------------------------
\* script.py: the script interpreter.  A byte is a number in 0..255 and a
\* byte string is a sequence of bytes.

\* raise NotImplementedError('No such opcode %x' % opcode), and the
\* routines that raise it themselves
NotImplementedError == "NotImplementedError"
TransactionInvalidError == "TransactionInvalidError"
ReservedWordError == "ReservedWordError"
\* what Python raises on its own
IndexError == "IndexError"
KeyError == "KeyError"
TypeError == "TypeError"
ValueError == "ValueError"

\* except (TransactionInvalidError, ReservedWordError) as failed:
Caught == {TransactionInvalidError, ReservedWordError}

OP_CODESEPARATOR == 171

\* DISABLED = [0x83, 0x84, 0x85, 0x86]
DISABLED == {131, 132, 133, 134}

\* the items of the data stack: bytes, None, or a Python bool
BytesItem(b) == [kind |-> "bytes", val |-> b]
NoneItem == [kind |-> "none", val |-> <<>>]
BoolItem(t) == [kind |-> "bool", val |-> IF t THEN <<1>> ELSE <<0>>]

\* bool(item) as `if not stack.pop()` and bool(stack.pop()) compute it
Truth(item) ==
    CASE item.kind = "bytes" -> item.val /= <<>>
      [] item.kind = "bool" -> item.val = <<1>>
      [] OTHER -> FALSE

Min(a, b) == IF a <= b THEN a ELSE b

\* script[:count] and what `script[:count] = []` leaves
Take(s, count) == SubSeq(s, 1, Min(count, Len(s)))
Drop(s, count) == SubSeq(s, Min(count, Len(s)) + 1, Len(s))

Top(s) == s[Len(s)]
Pop(s) == SubSeq(s, 1, Len(s) - 1)

\* struct.unpack('<L', bytestring[:4])[0]
RECURSIVE unpack(_)
unpack(bytestring) ==
    IF bytestring = <<>> THEN 0
    ELSE Head(bytestring) + 256 * unpack(Tail(bytestring))

\* struct.pack('<L', magnitude).rstrip(b'\0')
RECURSIVE pack(_)
pack(magnitude) ==
    IF magnitude = 0 THEN <<>>
    ELSE <<magnitude % 256>> \o pack(magnitude \div 256)

\* the largest magnitude a Script number of four bytes can carry
MaxNumber == 2147483647

\* number(bytestring): the value, or the exception that escapes it
number(item) ==
    CASE item.kind = "none" -> [exc |-> TypeError, val |-> 0]
      [] item.kind = "bool" -> [exc |-> "", val |-> item.val[1]]
      [] item.val = <<>> -> [exc |-> "", val |-> 0]
      [] OTHER ->
           LET msbs == Top(item.val)
               sign == msbs >= 128
               bytestring == Pop(item.val) \o <<msbs % 128>> \o <<0, 0, 0>>
               value == unpack(Take(bytestring, 4))
           IN  [exc |-> "", val |-> IF sign THEN 0 - value ELSE value]

bytevector_unpadded(n) ==
    IF n = 0 THEN <<>>
    ELSE LET magnitude == IF n < 0 THEN 0 - n ELSE n
             vector == pack(magnitude)
         IN  IF n < 0 THEN Pop(vector) \o <<(Top(vector) % 128) + 128>>
             ELSE vector

\* bytevector(number) for a number of at most MaxNumber in magnitude
bytevector(n) ==
    IF n = 0 THEN <<>>
    ELSE LET magnitude == IF n < 0 THEN 0 - n ELSE n
             vector == pack(magnitude)
             padded == IF Top(vector) >= 128 THEN vector \o <<0>> ELSE vector
         IN  IF n < 0 THEN Pop(padded) \o <<Top(padded) + 128>> ELSE padded

\* bytevector(a + b): the sum of two numbers that number() returned is
\* below 2^32, so struct.pack takes it, and a sum of 2^31 or more needs
\* five bytes, so `if len(vector) > 4` raises ValueError
bytevector_sum(a, b) ==
    IF (a > 0 /\ b > MaxNumber - a) \/ (a < 0 /\ b < 0 - MaxNumber - a)
    THEN [exc |-> ValueError, val |-> <<>>]
    ELSE [exc |-> "", val |-> bytevector(a + b)]

\* Numbers of up to 64 bits are kept as four 16-bit limbs, the least
\* significant first; Limbs(n) is the number n < 2^31
Limbs(n) == <<n % 65536, n \div 65536, 0, 0>>

\* struct.pack('<H' | '<L' | '<Q', number): its `width` bytes
pack_le(limbs, width) ==
    [i \in 1..width |-> IF i % 2 = 1 THEN limbs[(i + 1) \div 2] % 256
                        ELSE limbs[i \div 2] \div 256]

\* struct.unpack('B' | '<H' | '<L' | '<Q', bytestring)[0]
unpack_le(bytestring) ==
    LET byte(i) == IF i <= Len(bytestring) THEN bytestring[i] ELSE 0
    IN  [k \in 1..4 |-> byte(2 * k - 1) + 256 * byte(2 * k)]

varint_widest(length) == <<255>> \o pack_le(length, 8)

\* varint_length once length = len(data) is known
varint(length) ==
    IF length[1] < 253 /\ length[2] = 0 /\ length[3] = 0 /\ length[4] = 0
    THEN <<length[1]>>
    ELSE IF length[2] = 0 /\ length[3] = 0 /\ length[4] = 0
    THEN <<253>> \o pack_le(length, 2)
    ELSE IF length[3] = 0 /\ length[4] = 0
    THEN <<254>> \o pack_le(length, 4)
    ELSE <<255>> \o pack_le(length, 8)

\* varint_length(data)
varint_length(data) == varint(Limbs(Len(data)))

\* b''.join(items)
RECURSIVE join(_)
join(items) == IF items = <<>> THEN <<>> ELSE Head(items) \o join(Tail(items))

\* copied = list(transaction): what the caller's list holds afterwards
ListCopy(transaction, inputs, outputs) == transaction

\* tx_serialize(transaction): the bytes, and the argument after the call
tx_serialize(transaction) ==
    LET inputs == join([i \in DOMAIN transaction[3] |->
                           join(transaction[3][i])])
        outputs == join([i \in DOMAIN transaction[5] |->
                            join(transaction[5][i])])
        copied == [transaction EXCEPT ![3] = inputs, ![5] = outputs]
    IN  [bytes |-> join(copied),
         argument |-> ListCopy(transaction, inputs, outputs)]

\* The routines work on the mutable things run hands them: the data stack,
\* kwargs['script'], kwargs['ifstack'], kwargs['mark'], the enclosing
\* transaction; exc is the exception the routine raised, "" if none, and
\* sig holds the locals of op_checksig.
Raise(f, exception) == [f EXCEPT !.exc = exception]

Push(f, item) == [f EXCEPT !.stack = Append(@, item)]

op_nop(f) == f

op_false(f) == Push(f, BytesItem(<<>>))

op_pushdata(f, count) ==
    [f EXCEPT !.stack = Append(@, BytesItem(Take(f.script, count))),
              !.script = Drop(@, count)]

\* script.pop(0) on a script that ran out: the bytes before it are gone
Exhausted(f) == Raise([f EXCEPT !.script = <<>>], IndexError)

op_pushdata1(f) ==
    IF Len(f.script) < 1 THEN Exhausted(f)
    ELSE op_pushdata([f EXCEPT !.script = Tail(@)], f.script[1])

op_pushdata2(f) ==
    IF Len(f.script) < 2 THEN Exhausted(f)
    ELSE op_pushdata([f EXCEPT !.script = Drop(@, 2)],
                     f.script[1] + 256 * f.script[2])

op_pushdata4(f) ==
    IF Len(f.script) < 4 THEN Exhausted(f)
    ELSE op_pushdata([f EXCEPT !.script = Drop(@, 4)],
                     f.script[1] + (256 + f.script[2])
                     + (65536 + f.script[3]) + (16777216 + f.script[4]))

\* a skip that drops the data and leaves the length bytes in the script
skip_data(f, op) ==
    IF op < 76 THEN [f EXCEPT !.script = Drop(@, op)]
    ELSE IF f.script = <<>> THEN Exhausted(f)
    ELSE [f EXCEPT !.script = Drop(@, f.script[1])]

skip(f, op) ==
    LET trash == [f EXCEPT !.stack = <<>>]
        done == IF op < 76 THEN op_pushdata(trash, op)
                ELSE IF op = 76 THEN op_pushdata1(trash)
                ELSE IF op = 77 THEN op_pushdata2(trash)
                ELSE IF op = 78 THEN op_pushdata4(trash)
                ELSE Raise(trash, IndexError)
    IN  [done EXCEPT !.stack = f.stack]

op_1negate(f) == Push(f, BytesItem(<<129>>))

op_number(f, op) == Push(f, BytesItem(<<op - 80>>))

op_reserved(f) == Raise(f, ReservedWordError)

op_if(f) ==
    IF f.stack = <<>> THEN Raise(f, IndexError)
    ELSE [f EXCEPT !.stack = Pop(@),
                   !.ifstack = Append(@, IF Truth(Top(f.stack))
                                         THEN "True" ELSE "False")]

op_notif(f) ==
    IF f.stack = <<>> THEN Raise(f, IndexError)
    ELSE [f EXCEPT !.stack = Pop(@),
                   !.ifstack = Append(@, IF Truth(Top(f.stack))
                                         THEN "False" ELSE "True")]

op_else(f) ==
    IF f.ifstack = <<>> THEN Raise(f, IndexError)
    ELSE [f EXCEPT !.ifstack[Len(f.ifstack)] =
                       IF @ \in {"True", "None"} THEN "None" ELSE "True"]

op_endif(f) ==
    IF f.ifstack = <<>> THEN Raise(f, IndexError)
    ELSE [f EXCEPT !.ifstack = Pop(@)]

op_verify(f) ==
    IF f.stack = <<>> THEN Raise(f, IndexError)
    ELSE LET popped == [f EXCEPT !.stack = Pop(@)]
         IN  IF Truth(Top(f.stack)) THEN popped
             ELSE Raise(popped, TransactionInvalidError)

op_return(f) == Raise(f, TransactionInvalidError)

op_add(f) ==
    IF f.stack = <<>> THEN Raise(f, IndexError)
    ELSE LET first == number(Top(f.stack))
             one == [f EXCEPT !.stack = Pop(@)]
         IN  IF first.exc /= "" THEN Raise(one, first.exc)
             ELSE IF one.stack = <<>> THEN Raise(one, IndexError)
             ELSE LET second == number(Top(one.stack))
                      two == [one EXCEPT !.stack = Pop(@)]
                      vector == bytevector_sum(first.val, second.val)
                  IN  IF second.exc /= "" THEN Raise(two, second.exc)
                      ELSE IF vector.exc /= "" THEN Raise(two, vector.exc)
                      ELSE Push(two, BytesItem(vector.val))

\* a mark that numbers the separators executed instead of locating them
op_codeseparator_count(f, whole) ==
    [f EXCEPT !.mark = Append(@, Len(@))]

\* the mark is the offset of the OP_CODESEPARATOR just consumed
op_codeseparator(f, whole) ==
    [f EXCEPT !.mark = Append(@, Len(whole) - Len(f.script) - 1)]

\* for offset in range(len(checker) - 1, 0, -1): if checker[offset] == 0xab:
\* checker.pop(offset); subscript.pop(offset).  Popping from the far end
\* leaves the nearer offsets in place, so what remains is offset 0 and
\* every offset whose checker entry is not OP_CODESEPARATOR.
excise(checker, subscript) ==
    LET kept == SelectSeq([i \in 1..Len(checker) |-> i],
                          LAMBDA i : i = 1 \/ checker[i] /= OP_CODESEPARATOR)
    IN  [k \in 1..Len(kept) |-> subscript[kept[k]]]

\* for input in txcopy[2]: input[2] = b'\0'; input[3] = b''
Blank(txin) == [txin EXCEPT ![3] = <<0>>, ![4] = <<>>]

\* txcopy after the loop over its inputs and the two assignments
Substitute(tx, index, subscript) ==
    [tx EXCEPT ![3] = [i \in DOMAIN tx[3] |->
        IF i = index + 1
        THEN [tx[3][i] EXCEPT ![3] = varint_length(subscript),
                                 ![4] = subscript]
        ELSE Blank(tx[3][i])]]

\* txcopy = copy.deepcopy(txnew): what txnew holds once txcopy was edited
ShallowCopy(tx, txcopy) == txcopy

DeepCopy(tx, txcopy) == tx

op_checksig(f, whole, positions, index, verdict) ==
    IF f.stack = <<>> THEN Raise(f, IndexError)
    ELSE LET pubkey == Top(f.stack)
             one == [f EXCEPT !.stack = Pop(@)]
         IN  IF one.stack = <<>> THEN Raise(one, IndexError)
             ELSE LET item == Top(one.stack)
                      two == [one EXCEPT !.stack = Pop(@)]
                      from == Top(f.mark)
                      subscript == excise(
                          SubSeq(positions, from + 1, Len(positions)),
                          SubSeq(whole, from + 1, Len(whole)))
                      hashtype == Top(item.val)
                      hashtype_code == <<hashtype, 0, 0, 0>>
                      txcopy == Substitute(f.txnew, index, subscript)
                      serialized == tx_serialize(txcopy)
                      built == [two EXCEPT
                          !.txnew = DeepCopy(f.txnew, txcopy),
                          !.sig = [built |-> TRUE,
                                   mark |-> from,
                                   subscript |-> subscript,
                                   hashtype |-> hashtype,
                                   txcopy |-> serialized.argument,
                                   serialized |-> serialized.bytes
                                                    \o hashtype_code]]
                  IN  IF item.kind /= "bytes" THEN Raise(two, TypeError)
                      ELSE IF item.val = <<>> THEN Raise(two, IndexError)
                      ELSE IF pubkey.kind /= "bytes"
                      THEN Raise(built, TypeError)
                      ELSE Push(built, BoolItem(verdict))

\* a slice bound of a list of `length` items, as Python clamps it
Bound(length, i) == IF i < 0 THEN Max(length + i, 0) ELSE Min(i, length)

\* stack[a:b]
Slice(s, a, b) == SubSeq(s, Bound(Len(s), a) + 1, Bound(Len(s), b))

\* stack[a:b] = items
SliceAssign(s, a, b, items) ==
    LET low == Bound(Len(s), a)
        high == Max(Bound(Len(s), b), low)
    IN  SubSeq(s, 1, low) \o items \o SubSeq(s, high + 1, Len(s))

\* stack.insert(i, item)
Insert(s, i, item) == SliceAssign(s, i, i, <<item>>)

\* stack.pop(-back) for a stack of at least `back` items: what is left
PopAt(s, back) ==
    SubSeq(s, 1, Len(s) - back) \o SubSeq(s, Len(s) - back + 2, Len(s))

op_2dup(f) == [f EXCEPT !.stack = @ \o Slice(@, -2, Len(@))]

op_2rot(f) ==
    LET extended == f.stack \o Slice(f.stack, -6, -4)
    IN  [f EXCEPT !.stack = SliceAssign(extended, -8, -6, <<>>)]

\* stack[-2:], stack[-4:-2] = stack[-4:-2], stack[-2:]
op_2swap(f) ==
    LET pair == Slice(f.stack, -4, -2)
        top == Slice(f.stack, -2, Len(f.stack))
        first == SliceAssign(f.stack, -2, Len(f.stack), pair)
    IN  [f EXCEPT !.stack = SliceAssign(first, -4, -2, top)]

op_nip(f) ==
    IF Len(f.stack) < 2 THEN Raise(f, IndexError)
    ELSE [f EXCEPT !.stack = PopAt(@, 2)]

op_over(f) ==
    IF Len(f.stack) < 2 THEN Raise(f, IndexError)
    ELSE Push(f, f.stack[Len(f.stack) - 1])

op_rot(f) ==
    IF Len(f.stack) < 3 THEN Raise(f, IndexError)
    ELSE [f EXCEPT !.stack = Append(PopAt(@, 3), f.stack[Len(f.stack) - 2])]

op_swap(f) ==
    IF Len(f.stack) < 2 THEN Raise(f, IndexError)
    ELSE [f EXCEPT !.stack = Append(PopAt(@, 2), f.stack[Len(f.stack) - 1])]

op_tuck_below_top(f) ==
    IF f.stack = <<>> THEN Raise(f, IndexError)
    ELSE [f EXCEPT !.stack = Insert(@, -1, Top(f.stack))]

op_tuck(f) ==
    IF f.stack = <<>> THEN Raise(f, IndexError)
    ELSE [f EXCEPT !.stack = Insert(@, -2, Top(f.stack))]

\* suffix = stack.pop(); stack[-1] += suffix, for byte strings and None
op_cat(f) ==
    IF f.stack = <<>> THEN Raise(f, IndexError)
    ELSE LET suffix == Top(f.stack)
             one == [f EXCEPT !.stack = Pop(@)]
         IN  IF one.stack = <<>> THEN Raise(one, IndexError)
             ELSE IF Top(one.stack).kind /= "bytes" \/ suffix.kind /= "bytes"
             THEN Raise(one, TypeError)
             ELSE [one EXCEPT !.stack[Len(one.stack)] =
                       BytesItem(@.val \o suffix.val)]

op_2mul(f) ==
    IF f.stack = <<>> THEN Raise(f, IndexError)
    ELSE LET n == number(Top(f.stack))
             one == [f EXCEPT !.stack = Pop(@)]
             vector == bytevector_sum(n.val, n.val)
         IN  IF n.exc /= "" THEN Raise(one, n.exc)
             ELSE IF vector.exc /= "" THEN Raise(one, vector.exc)
             ELSE Push(one, BytesItem(vector.val))

op_2div(f) ==
    IF f.stack = <<>> THEN Raise(f, IndexError)
    ELSE LET n == number(Top(f.stack))
             one == [f EXCEPT !.stack = Pop(@)]
         IN  IF n.exc /= "" THEN Raise(one, n.exc)
             ELSE Push(one, BytesItem(bytevector(n.val \div 2)))

\* kwargs['altstack'].append(stack.pop())
op_toaltstack(f) ==
    IF f.stack = <<>> THEN Raise(f, IndexError)
    ELSE [f EXCEPT !.stack = Pop(@),
                   !.altstack = Append(@, Top(f.stack))]

\* -1 - stack.pop(): Python subtracts from an int only a number, and a
\* bool is one; bytes and None make it raise TypeError
operand(item) ==
    IF item.kind = "bool" THEN [exc |-> "", val |-> item.val[1]]
    ELSE [exc |-> TypeError, val |-> 0]

\* stack.append(stack[-1 - stack.pop()])
op_pick(f) ==
    IF f.stack = <<>> THEN Raise(f, IndexError)
    ELSE LET n == operand(Top(f.stack))
             one == [f EXCEPT !.stack = Pop(@)]
         IN  IF n.exc /= "" THEN Raise(one, n.exc)
             ELSE IF n.val + 1 > Len(one.stack) THEN Raise(one, IndexError)
             ELSE Push(one, one.stack[Len(one.stack) - n.val])

\* stack.append(stack.pop(-1 - stack.pop()))
op_roll(f) ==
    IF f.stack = <<>> THEN Raise(f, IndexError)
    ELSE LET n == operand(Top(f.stack))
             one == [f EXCEPT !.stack = Pop(@)]
             at == Len(one.stack) - n.val
         IN  IF n.exc /= "" THEN Raise(one, n.exc)
             ELSE IF n.val + 1 > Len(one.stack) THEN Raise(one, IndexError)
             ELSE [one EXCEPT !.stack = SubSeq(@, 1, at - 1)
                                           \o SubSeq(@, at + 1, Len(@))
                                           \o <<one.stack[at]>>]

\* operands = (number(stack.pop()), number(stack.pop()));
\* stack.append(bytevector(operands[0] == operands[1]))
op_equal(f) ==
    IF f.stack = <<>> THEN Raise(f, IndexError)
    ELSE LET first == number(Top(f.stack))
             one == [f EXCEPT !.stack = Pop(@)]
         IN  IF first.exc /= "" THEN Raise(one, first.exc)
             ELSE IF one.stack = <<>> THEN Raise(one, IndexError)
             ELSE LET second == number(Top(one.stack))
                      two == [one EXCEPT !.stack = Pop(@)]
                  IN  IF second.exc /= "" THEN Raise(two, second.exc)
                      ELSE Push(two, BytesItem(bytevector(
                               IF first.val = second.val THEN 1 ELSE 0)))

\* op_equal(stack=stack); op_verify(stack=stack)
op_equalverify(f) ==
    LET compared == op_equal(f)
    IN  IF compared.exc /= "" THEN compared ELSE op_verify(compared)

\* bytevector(number(stack.pop()) and number(stack.pop())): `and` gives its
\* left operand when that is zero, without a look at the right one, and
\* the right operand otherwise
op_booland(f) ==
    IF f.stack = <<>> THEN Raise(f, IndexError)
    ELSE LET first == number(Top(f.stack))
             one == [f EXCEPT !.stack = Pop(@)]
         IN  IF first.exc /= "" THEN Raise(one, first.exc)
             ELSE IF first.val = 0 THEN Push(one, BytesItem(bytevector(0)))
             ELSE IF one.stack = <<>> THEN Raise(one, IndexError)
             ELSE LET second == number(Top(one.stack))
                      two == [one EXCEPT !.stack = Pop(@)]
                  IN  IF second.exc /= "" THEN Raise(two, second.exc)
                      ELSE Push(two, BytesItem(bytevector(second.val)))

\* bytevector(number(stack.pop()) or number(stack.pop())): `or` gives its
\* left operand unless that is zero
op_boolor(f) ==
    IF f.stack = <<>> THEN Raise(f, IndexError)
    ELSE LET first == number(Top(f.stack))
             one == [f EXCEPT !.stack = Pop(@)]
         IN  IF first.exc /= "" THEN Raise(one, first.exc)
             ELSE IF first.val /= 0
             THEN Push(one, BytesItem(bytevector(first.val)))
             ELSE IF one.stack = <<>> THEN Raise(one, IndexError)
             ELSE LET second == number(Top(one.stack))
                      two == [one EXCEPT !.stack = Pop(@)]
                  IN  IF second.exc /= "" THEN Raise(two, second.exc)
                      ELSE Push(two, BytesItem(bytevector(second.val)))

op_checkmultisig(f) == Raise(f, NotImplementedError)

op_checklocktimeverify(f) == Raise(f, NotImplementedError)

op_checksequenceverify(f) == Raise(f, NotImplementedError)

\* SCRIPT_OPS: opcode -> [display, routine, routine of an inactive branch]
SCRIPT_OPS(op) ==
    CASE op = 0 -> <<"FALSE", "op_false", "op_nop">>
      [] op \in 1..75 -> <<"op_pushdata", "op_pushdata", "skip">>
      [] op = 76 -> <<"op_pushdata1", "op_pushdata1", "skip">>
      [] op = 77 -> <<"op_pushdata2", "op_pushdata2", "skip">>
      [] op = 78 -> <<"op_pushdata4", "op_pushdata4", "skip">>
      [] op = 79 -> <<"-1", "op_1negate", "op_nop">>
      [] op = 80 -> <<"RESERVED", "op_reserved", "op_nop">>
      [] op = 81 -> <<"TRUE", "op_number", "op_nop">>
      [] op \in 82..96 -> <<"op_shownumber", "op_number", "op_nop">>
      [] op = 97 -> <<"NOP", "op_nop", "op_nop">>
      [] op = 98 -> <<"VER", "op_reserved", "op_nop">>
      [] op = 99 -> <<"IF", "op_if", "op_nop">>
      [] op = 100 -> <<"NOTIF", "op_notif", "op_nop">>
      [] op = 101 -> <<"VERIF", "op_reserved", "op_nop">>
      [] op = 102 -> <<"VERNOTIF", "op_reserved", "op_nop">>
      [] op = 103 -> <<"ELSE", "op_else", "op_notif">>
      [] op = 104 -> <<"ENDIF", "op_endif", "op_nop">>
      [] op = 105 -> <<"VERIFY", "op_verify", "op_nop">>
      [] op = 106 -> <<"RETURN", "op_return", "op_nop">>
      [] op = 107 -> <<"TOALTSTACK", "op_toaltstack", "op_nop">>
      [] op = 108 -> <<"FROMALTSTACK", "op_fromaltstackop_nop">>
      [] op = 109 -> <<"2DROP", "op_2drop", "op_nop">>
      [] op = 110 -> <<"2DUP", "op_2dup", "op_nop">>
      [] op = 111 -> <<"3DUP", "op_3dup", "op_nop">>
      [] op = 112 -> <<"2OVER", "op_2over", "op_nop">>
      [] op = 113 -> <<"2ROT", "op_2rot", "op_nop">>
      [] op = 114 -> <<"2SWAP", "op_2swap", "op_nop">>
      [] op = 115 -> <<"IFDUP", "op_ifdup", "op_nop">>
      [] op = 116 -> <<"DEPTH", "op_depth", "op_nop">>
      [] op = 117 -> <<"DROP", "op_drop", "op_nop">>
      [] op = 118 -> <<"DUP", "op_dup", "op_nop">>
      [] op = 119 -> <<"NIP", "op_nip", "op_nop">>
      [] op = 120 -> <<"OVER", "op_over", "op_nop">>
      [] op = 121 -> <<"PICK", "op_pick", "op_nop">>
      [] op = 122 -> <<"ROLL", "op_roll", "op_nop">>
      [] op = 123 -> <<"ROT", "op_rot", "op_nop">>
      [] op = 124 -> <<"SWAP", "op_swap", "op_nop">>
      [] op = 125 -> <<"TUCK", "op_tuck", "op_nop">>
      [] op = 126 -> <<"CAT", "op_cat", "op_nop">>
      [] op = 127 -> <<"SUBSTR", "op_substr", "op_nop">>
      [] op = 128 -> <<"LEFT", "op_left", "op_nop">>
      [] op = 129 -> <<"RIGHT", "op_right", "op_nop">>
      [] op = 130 -> <<"SIZE", "op_size", "op_nop">>
      [] op = 131 -> <<"INVERT", "op_invert", "op_nop">>
      [] op = 132 -> <<"AND", "op_and", "op_nop">>
      [] op = 133 -> <<"OR", "op_or", "op_nop">>
      [] op = 134 -> <<"XOR", "op_xor", "op_nop">>
      [] op = 135 -> <<"EQUAL", "op_equal", "op_nop">>
      [] op = 136 -> <<"EQUALVERIFY", "op_equalverify", "op_nop">>
      [] op = 137 -> <<"RESERVED1", "reserved", "op_nop">>
      [] op = 138 -> <<"RESERVED2", "reserved", "op_nop">>
      [] op = 139 -> <<"1ADD", "op_1add", "op_nop">>
      [] op = 140 -> <<"1SUB", "op_1sub", "op_nop">>
      [] op = 141 -> <<"2MUL", "op_2mul", "op_nop">>
      [] op = 142 -> <<"2DIV", "op_2div", "op_nop">>
      [] op = 143 -> <<"NEGATE", "op_negate", "op_nop">>
      [] op = 144 -> <<"ABS", "op_abs", "op_nop">>
      [] op = 145 -> <<"NOT", "op_not", "op_nop">>
      [] op = 146 -> <<"0NOTEQUAL", "op_0notequal", "op_nop">>
      [] op = 147 -> <<"ADD", "op_add", "op_nop">>
      [] op = 148 -> <<"SUB", "op_sub", "op_nop">>
      [] op = 149 -> <<"MUL", "op_mul", "op_nop">>
      [] op = 150 -> <<"DIV", "op_div", "op_nop">>
      [] op = 151 -> <<"MOD", "op_mod", "op_nop">>
      [] op = 152 -> <<"LSHIFT", "op_lshift", "op_nop">>
      [] op = 153 -> <<"RSHIFT", "op_rshift", "op_nop">>
      [] op = 154 -> <<"BOOLAND", "op_booland", "op_nop">>
      [] op = 155 -> <<"BOOLOR", "op_boolor", "op_nop">>
      [] op = 156 -> <<"NUMEQUAL", "op_numequal", "op_nop">>
      [] op = 157 -> <<"NUMEQUALVERIFY", "op_numequalverify", "op_nop">>
      [] op = 158 -> <<"NUMNOTEQUAL", "op_numnotequal", "op_nop">>
      [] op = 159 -> <<"LESSTHAN", "op_lessthan", "op_nop">>
      [] op = 160 -> <<"GREATERTHAN", "op_greaterthan", "op_nop">>
      [] op = 161 -> <<"LESSTHANOREQUAL", "op_lessthanorequal", "op_nop">>
      [] op = 162 -> <<"GREATERTHANOREQUAL", "op_greaterthanorequal", "op_nop">>
      [] op = 163 -> <<"MIN", "op_min", "op_nop">>
      [] op = 164 -> <<"MAX", "op_max", "op_nop">>
      [] op = 165 -> <<"WITHIN", "op_within", "op_nop">>
      [] op = 166 -> <<"RIPEMD160", "op_ripemd160", "op_nop">>
      [] op = 167 -> <<"SHA1", "op_sha1", "op_nop">>
      [] op = 168 -> <<"SHA256", "op_sha256", "op_nop">>
      [] op = 169 -> <<"HASH160", "op_hash160", "op_nop">>
      [] op = 170 -> <<"HASH256", "op_hash256", "op_nop">>
      [] op = 171 -> <<"CODESEPARATOR", "op_codeseparator", "op_codeseparator">>
      [] op = 172 -> <<"CHECKSIG", "op_checksig", "op_nop">>
      [] op = 173 -> <<"CHECKSIGVERIFY", "op_checksigverify", "op_nop">>
      [] op = 174 -> <<"CHECKMULTISIG", "op_checkmultisig", "op_nop">>
      [] op = 175 -> <<"CHECKMULTISIGVERIFY", "checkmultisigverify", "op_nop">>
      [] op = 176 -> <<"NOP1", "op_nop", "op_nop">>
      [] op = 177 -> <<"CHECKLOCKTIMEVERIFY", "op_checklocktimeverify", "op_nop">>
      [] op = 178 -> <<"CHECKSEQUENCEVERIFY", "op_checksequenceverify", "op_nop">>
      [] op = 179 -> <<"NOP4", "op_nop", "op_nop">>
      [] op = 180 -> <<"NOP5", "op_nop", "op_nop">>
      [] op = 181 -> <<"NOP6", "op_nop", "op_nop">>
      [] op = 182 -> <<"NOP7", "op_nop", "op_nop">>
      [] op = 183 -> <<"NOP8", "op_nop", "op_nop">>
      [] op = 184 -> <<"NOP9", "op_nop", "op_nop">>
      [] op = 185 -> <<"NOP10", "op_nop", "op_nop">>
      [] OTHER -> <<>>

\* opcodes = dict(SCRIPT_OPS); for opcode in DISABLED: opcodes.pop(opcode);
\* opcodes.get(opcode, None), None being the empty entry
opcodes(op) == IF op \in DISABLED THEN <<>> ELSE SCRIPT_OPS(op)

\* names in the table that no function of the module carries
Undefined == {"reserved", "checkmultisigverify", "op_fromaltstackop_nop",
              "op_greaterthan"}

\* globals()[run_op](stack, **kwargs)
Call(run_op, f, op, whole, positions, index, verdict) ==
    CASE run_op = "op_nop" -> op_nop(f)
      [] run_op = "skip" -> skip(f, op)
      [] run_op = "op_false" -> op_false(f)
      [] run_op = "op_pushdata" -> op_pushdata(f, op)
      [] run_op = "op_pushdata1" -> op_pushdata1(f)
      [] run_op = "op_pushdata2" -> op_pushdata2(f)
      [] run_op = "op_pushdata4" -> op_pushdata4(f)
      [] run_op = "op_1negate" -> op_1negate(f)
      [] run_op = "op_number" -> op_number(f, op)
      [] run_op = "op_reserved" -> op_reserved(f)
      [] run_op = "op_if" -> op_if(f)
      [] run_op = "op_notif" -> op_notif(f)
      [] run_op = "op_else" -> op_else(f)
      [] run_op = "op_endif" -> op_endif(f)
      [] run_op = "op_verify" -> op_verify(f)
      [] run_op = "op_return" -> op_return(f)
      [] run_op = "op_add" -> op_add(f)
      [] run_op = "op_codeseparator" -> op_codeseparator(f, whole)
      [] run_op = "op_checksig" ->
             op_checksig(f, whole, positions, index, verdict)
      [] run_op = "op_checkmultisig" -> op_checkmultisig(f)
      [] run_op = "op_checklocktimeverify" -> op_checklocktimeverify(f)
      [] run_op = "op_checksequenceverify" -> op_checksequenceverify(f)
      [] run_op = "op_2dup" -> op_2dup(f)
      [] run_op = "op_2rot" -> op_2rot(f)
      [] run_op = "op_2swap" -> op_2swap(f)
      [] run_op = "op_nip" -> op_nip(f)
      [] run_op = "op_over" -> op_over(f)
      [] run_op = "op_rot" -> op_rot(f)
      [] run_op = "op_swap" -> op_swap(f)
      [] run_op = "op_tuck" -> op_tuck(f)
      [] run_op = "op_cat" -> op_cat(f)
      [] run_op = "op_2mul" -> op_2mul(f)
      [] run_op = "op_2div" -> op_2div(f)
      [] run_op = "op_toaltstack" -> op_toaltstack(f)
      [] run_op = "op_pick" -> op_pick(f)
      [] run_op = "op_roll" -> op_roll(f)
      [] run_op = "op_equal" -> op_equal(f)
      [] run_op = "op_equalverify" -> op_equalverify(f)
      [] run_op = "op_booland" -> op_booland(f)
      [] run_op = "op_boolor" -> op_boolor(f)
      [] run_op \in Undefined -> Raise(f, KeyError)

\* if kwargs['ifstack'] and not kwargs['ifstack'][-1]
Inactive(flags) == flags /= <<>> /\ Top(flags) /= "True"

\* one turn of `while script:` for the opcode at the front of the script
Dispatch(f, op, whole, positions, index, verdict) ==
    LET operation == opcodes(op)
        column == IF Inactive(f.ifstack) THEN 3 ELSE 2
    IN  IF operation = <<>> THEN Raise(f, NotImplementedError)
        ELSE IF column > Len(operation) THEN Raise(f, IndexError)
        ELSE Call(operation[column], f, op, whole, positions,
                  index, verdict)

\* parse(scriptbinary)[0]: the opcode at every offset where an opcode
\* starts, None (here NoOpcode) at the offsets of pushed data; the display
\* routines of the push opcodes are the ones that consume script bytes
NoOpcode == -1

RECURSIVE parse(_)
parse(scriptbinary) ==
    IF scriptbinary = <<>> THEN <<>>
    ELSE LET op == Head(scriptbinary)
             f == [stack |-> <<>>, script |-> Tail(scriptbinary), exc |-> ""]
             operation == SCRIPT_OPS(op)
             display_op == IF operation = <<>> THEN "" ELSE operation[1]
             after == CASE display_op = "op_pushdata" ->
                               op_pushdata(f, op)
                        [] display_op = "op_pushdata1" -> op_pushdata1(f)
                        [] display_op = "op_pushdata2" -> op_pushdata2(f)
                        [] display_op = "op_pushdata4" -> op_pushdata4(f)
                        [] OTHER -> f
             data == Len(f.script) - Len(after.script)
         IN  <<op>> \o [i \in 1..data |-> NoOpcode]
                        \o parse(after.script)

\* the state run works on
Frame == [stack |-> stack, script |-> script, ifstack |-> ifstack,
          mark |-> mark, txnew |-> txnew, exc |-> "", sig |-> sigframe,
          altstack |-> altstack]

\* while script: ... one opcode, and the except clause if it raised
Step ==
    /\ outcome = "running"
    /\ script /= <<>>
    /\ \E verdict \in BOOLEAN :
         LET f == Dispatch([Frame EXCEPT !.script = Tail(@)], Head(script),
                           reference, parsed, txindex, verdict)
         IN  /\ opcode' = Head(script)
             /\ script' = f.script
             /\ ifstack' = f.ifstack
             /\ mark' = f.mark
             /\ txnew' = f.txnew
             /\ sigframe' = f.sig
             /\ altstack' = f.altstack
             /\ error' = f.exc
             /\ stack' = IF f.exc \in Caught THEN Append(f.stack, NoneItem)
                         ELSE f.stack
             /\ outcome' = IF f.exc = "" THEN "running"
                           ELSE IF f.exc \in Caught THEN "returned"
                           ELSE "raised"
    /\ UNCHANGED <<input, reference, parsed, txindex>>
    /\ UNCHANGED <<chainvars, call, readervars, drivervars>>

\* `while script:` finds the script used up and run returns
Return ==
    /\ outcome = "running"
    /\ script = <<>>
    /\ outcome' = "returned"
    /\ UNCHANGED <<input, reference, parsed, script, stack, altstack,
                   ifstack, mark, opcode, error, txnew, txindex, sigframe>>
    /\ UNCHANGED <<chainvars, call, readervars, drivervars>>

\* ---- the calls of run that are explored

\* a transaction as parse_transaction returns it:
\* [version, raw_in_count, inputs, raw_out_count, outputs, lock_time]
TheTx(count) ==
    <<  <<1, 0, 0, 0>>,
        <<count>>,
        [i \in 1..count |->
            << [k \in 1..32 |-> i], <<i - 1, 0, 0, 0>>, <<2>>, <<81, 172>>,
               <<255, 255, 255, 255>> >>],
        <<1>>,
        << << <<80, 0, 0, 0, 0, 0, 0, 0>>, <<1>>, <<81>> >> >>,
        <<0, 0, 0, 0>> >>

NoSig == [built |-> FALSE, mark |-> 0, subscript |-> <<>>, hashtype |-> 0,
          txcopy |-> <<>>, serialized |-> <<>>]

Case(kind, scriptbinary, items, count, index, cond, opener, A, B) ==
    [kind |-> kind, scriptbinary |-> scriptbinary, stack |-> items,
     inputs |-> count, txindex |-> index,
     cond |-> cond, opener |-> opener, A |-> A, B |-> B]

\* all sequences of at most n elements of S
SeqUpTo(S, n) == UNION {[1..k -> S] : k \in 0..n}

\* <cond> IF|NOTIF <A> ELSE <B> ENDIF over what a caller left on the stack
Conds == {<<0>>, <<81>>, <<1, 5>>}
Pushes == {<<81>>, <<1, 103>>}
Belows == {<<>>, <<BytesItem(<<>>)>>, <<BytesItem(<<7>>)>>}

FlowCases ==
    {Case("flow", cond \o <<opener>> \o join(A) \o <<103>> \o join(B)
                      \o <<104>>,
          below, 1, 0, cond, opener, A, B) :
        cond \in Conds, opener \in {99, 100},
        A \in SeqUpTo(Pushes, MaxBranch), B \in SeqUpTo(Pushes, MaxBranch),
        below \in Belows}

\* scripts of opcodes that fail, or may
FailOpcodes == {0, 81, 99, 105, 106, 80, 137, 186, 131, 174, 147}
FailStacks == {<<>>, <<BytesItem(<<>>)>>, <<BytesItem(<<1>>)>>,
               <<BytesItem(<<255, 255, 255, 127>>),
                 BytesItem(<<255, 255, 255, 127>>)>>}

FailCases ==
    {Case("fail", scriptbinary, items, 1, 0, <<>>, 0, <<>>, <<>>) :
        scriptbinary \in SeqUpTo(FailOpcodes, MaxFailLen) \ {<<>>},
        items \in FailStacks}

\* scripts around CHECKSIG, run on a signature and a public key
SigAtoms == {<<OP_CODESEPARATOR>>, <<1, OP_CODESEPARATOR>>, <<81>>}
SigStack == <<BytesItem(<<48, 1>>), BytesItem(<<4, 9>>)>>

SigCases ==
    {Case("sig", join(before) \o <<172>> \o join(after), SigStack,
          count, index, <<>>, 0, <<>>, <<>>) :
        before \in SeqUpTo(SigAtoms, MaxSigAtoms),
        after \in SeqUpTo(SigAtoms, 1),
        count \in 1..MaxInputs, index \in 0..(MaxInputs - 1)}

\* scripts of the stack-shape opcodes and of the opcodes bitcoin-core
\* disables, on stacks of 0 to MaxDepth numbered items and on one negative
\* number
ShapeOpcodes == {110, 113, 114, 119, 120, 123, 124, 125,
                 126, 131, 132, 133, 134, 141, 142}
ShapeStacks == {[i \in 1..depth |-> BytesItem(<<i>>)] : depth \in 0..MaxDepth}
                   \cup {<<BytesItem(<<131>>)>>}

ShapeCases ==
    {Case("shape", scriptbinary, items, 1, 0, <<>>, 0, <<>>, <<>>) :
        scriptbinary \in SeqUpTo(ShapeOpcodes, MaxShapeLen) \ {<<>>},
        items \in ShapeStacks}

\* a script long enough for a length VarInt of three bytes
LongCases ==
    {Case("sig", <<76, PadLen>> \o [i \in 1..PadLen |-> OP_CODESEPARATOR]
                     \o <<172>>,
          SigStack, 1, 0, <<>>, 0, <<>>, <<>>)}

\* run(scriptbinary, txnew, txindex, parsed, stack) up to its try
InitRun(case) ==
    /\ input = case
    /\ reference = case.scriptbinary
    /\ parsed = parse(case.scriptbinary)
    /\ script = case.scriptbinary
    /\ stack = case.stack
    /\ altstack = <<>>
    /\ ifstack = <<>>
    /\ mark = <<0>>
    /\ opcode = NoOpcode
    /\ outcome = "running"
    /\ error = ""
    /\ txnew = TheTx(case.inputs)
    /\ txindex = case.txindex
    /\ sigframe = NoSig

InitScript ==
    /\ InitNextblock
    /\ forkAt = 0
    /\ universe = {}
    /\ dupBudget = 0
    /\ orphanBudget = 0
    /\ \/ \E case \in FlowCases : InitRun(case)
       \/ \E case \in FailCases : InitRun(case)
       \/ \E case \in ShapeCases : InitRun(case)
       \/ \E case \in {c \in SigCases : c.txindex < c.inputs} : InitRun(case)
       \/ \E case \in LongCases : InitRun(case)
    /\ call = [fn |-> "none"]
    /\ ReaderIdle
    /\ DriverIdle

NextScript ==
    \/ Step
    \/ Return

SpecScript == InitScript /\ [][NextScript]_vars

\* ---- runs of single opcodes inside and outside of a branch

\* what opens the run: nothing, or a condition and IF or NOTIF
Openings == {<<>>, <<81, 99>>, <<0, 99>>, <<81, 100>>, <<0, 100>>}

\* ELSE, ENDIF, the four kinds of push with one byte of data, three pushes
\* cut short, OP_CODESEPARATOR, TOALTSTACK, FROMALTSTACK and OP_1
BranchAtoms == {<<103>>, <<104>>, <<1, 7>>, <<76, 1, 7>>, <<77, 1, 0, 7>>,
                <<78, 1, 0, 0, 0, 7>>, <<2, 7>>, <<76>>, <<77, 1>>,
                <<OP_CODESEPARATOR>>, <<107>>, <<108>>, <<81>>}
BranchStacks == {<<>>, <<BytesItem(<<7>>)>>,
                 <<BytesItem(<<7>>), BytesItem(<<>>)>>}

BranchCases ==
    {Case("branch", opening \o join(body), items, 1, 0, opening, 0,
          body, <<>>) :
        opening \in Openings, body \in SeqUpTo(BranchAtoms, MaxBody),
        items \in BranchStacks}

\* a 20-byte vector as HASH160 leaves it; two of them differ in byte 5 only
Hash(k) == [i \in 1..20 |-> IF i = 5 THEN k ELSE 9]

\* PICK, ROLL, EQUAL, EQUALVERIFY, BOOLAND, BOOLOR after up to MaxOperands
\* pushes of a number, on stacks of byte-vectors, of results of CHECKSIG
\* and of hashes
OperandPushes == {<<0>>, <<81>>, <<82>>, <<1, 5>>, <<1, 128>>}
OperandOpcodes == {121, 122, 135, 136, 154, 155}
OperandStacks ==
    {<<>>,
     <<BytesItem(<<12>>), BytesItem(<<11>>), BytesItem(<<10>>)>>,
     <<BytesItem(<<12>>), BytesItem(<<11>>), BytesItem(<<10>>),
       BoolItem(TRUE)>>,
     <<BytesItem(<<12>>), BytesItem(<<11>>), BytesItem(<<10>>),
       BoolItem(FALSE)>>,
     <<BytesItem(<<>>), BytesItem(<<128>>)>>,
     <<BytesItem(Hash(1)), BytesItem(Hash(1))>>,
     <<BytesItem(Hash(1)), BytesItem(Hash(2))>>}

OperandCases ==
    {Case("operand", join(pushes) \o <<op>>, items, 1, 0, <<>>, op,
          pushes, <<>>) :
        pushes \in SeqUpTo(OperandPushes, MaxOperands),
        op \in OperandOpcodes, items \in OperandStacks}

InitOpcodes ==
    /\ InitNextblock
    /\ forkAt = 0
    /\ universe = {}
    /\ dupBudget = 0
    /\ orphanBudget = 0
    /\ \/ \E case \in BranchCases : InitRun(case)
       \/ \E case \in OperandCases : InitRun(case)
    /\ call = [fn |-> "none"]
    /\ ReaderIdle
    /\ DriverIdle

SpecOpcodes == InitOpcodes /\ [][NextScript]_vars

----------------------------------------------------------------------------
\* Claims about the chain assembler

\* number of blocks from the null block up to and including h
RECURSIVE Depth(_)
Depth(h) == IF h = NULLBLOCK THEN 0 ELSE 1 + Depth(Previous(h))

Arrived == DOMAIN BLOCKCHAIN \ {NULLBLOCK}

\* the main chain follows the front child at every step
FollowsFront(blocks, blockchain) ==
    \A i \in DOMAIN blocks :
        LET parent == IF i = 1 THEN NULLBLOCK ELSE blocks[i - 1]
        IN  /\ blockchain[parent].children /= <<>>
            /\ blocks[i] = blockchain[parent].children[1]

\* C1: for a fork-free chain delivered in order the main chain is the
\* chunks delivered so far and the blocks yielded are exactly its first
\* len - CONFIRMATIONS blocks, so block N is yielded in the step that brings
\* the length to N + CONFIRMATIONS; and for every input, a block that has
\* just been yielded lies on the main chain with at least CONFIRMATIONS
\* blocks above it.
C1_YieldedAtConfirmationDepth ==
    /\ inorder =>
          /\ BLOCKS = [i \in 1..Cardinality(Arrived) |-> i]
          /\ yielded = SubSeq(BLOCKS, 1, Max(0, Len(BLOCKS) - CONFIRMATIONS))
    /\ pc = "yielded" =>
          /\ last + 1 \in DOMAIN BLOCKS
          /\ yielded[Len(yielded)] = BLOCKS[last + 1]
          /\ Len(BLOCKS) - (last + 1) >= CONFIRMATIONS

C1_Witness ==
    inorder /\ pc = "yielded" /\ Len(BLOCKS) = 2 + CONFIRMATIONS
            /\ yielded = <<1, 2>>

\* C2: no hash is yielded twice and the i-th block yielded has main-chain
\* height i - 1 (it is i blocks away from the null block), whatever forks,
\* orphans and repeated chunks the stream holds.
C2_YieldedOnceInHeightOrder ==
    /\ \A i \in DOMAIN yielded : Depth(yielded[i]) = i
    /\ \A i, j \in DOMAIN yielded : i /= j => yielded[i] /= yielded[j]
    /\ Len(yielded) = last + 1

C2_Witness ==
    /\ Len(yielded) >= 2
    /\ dups > 0
    /\ Arrived \cap ForkLine /= {}
    /\ Len(CHAINS) > 1

\* C3: the first block yielded points at the null block and every later one
\* at the block yielded just before it.
C3_YieldedIsLinear ==
    \A i \in DOMAIN yielded :
        Previous(yielded[i]) = IF i = 1 THEN NULLBLOCK ELSE yielded[i - 1]

\* C4: once the chunks of a fork-free chain of L blocks have all been
\* consumed, in whatever order they came, exactly the first
\* max(0, L - CONFIRMATIONS) blocks have been yielded, in chain order.
C4_PermutationYieldsPrefix ==
    \A L \in 0..MainLen :
        (pc = "fetch" /\ dups = 0 /\ Arrived = 1..L) =>
            yielded = [i \in 1..Max(0, L - CONFIRMATIONS) |-> i]

C4_Witness ==
    /\ pc = "fetch"
    /\ ~inorder
    /\ Arrived = MainLine
    /\ yielded = [i \in 1..(MainLen - CONFIRMATIONS) |-> i]

\* a block h, not seen before, is linked by this step to a parent that
\* already has a child
LinksCompetitor(h) ==
    /\ h \notin DOMAIN BLOCKCHAIN
    /\ h \in DOMAIN BLOCKCHAIN'
    /\ Previous(h) \in DOMAIN BLOCKCHAIN
    /\ BLOCKCHAIN[Previous(h)].children /= <<>>

KeepsBothFrontFirst(h) ==
    /\ pc' /= "raised"
    /\ BLOCKCHAIN'[Previous(h)].children =
           <<h>> \o BLOCKCHAIN[Previous(h)].children
    /\ FollowsFront(BLOCKS', BLOCKCHAIN')

OnMainChain(h) == h = NULLBLOCK \/ h \in Range(BLOCKS')

\* C5 as claimed: a block linked to a parent that already has a child is put
\* in front of the other children without an error, and the recomputed main
\* chain passes through it.
C5_CompetitorOnMainChain ==
    [][\A h \in MainLine \cup ForkLine :
          LinksCompetitor(h) =>
              KeepsBothFrontFirst(h) /\ h \in Range(BLOCKS')]_vars

\* C5 amended: ... and the recomputed main chain passes through it whenever
\* its parent is the null block or lies on the recomputed main chain.
C5_CompetitorInFront ==
    [][\A h \in MainLine \cup ForkLine :
          LinksCompetitor(h) =>
              /\ KeepsBothFrontFirst(h)
              /\ OnMainChain(Previous(h)) => h \in Range(BLOCKS')]_vars

C5_Witness ==
    /\ forkAt = 1
    /\ 1 \in DOMAIN BLOCKCHAIN
    /\ Len(BLOCKCHAIN[1].children) = 2
    /\ BLOCKCHAIN[1].children[1] = MainLen + 1
    /\ MainLen + 1 \in Range(BLOCKS)

----------------------------------------------------------------------------
\* Claims about the script interpreter

\* the failures of an opcode that the specification names: a failed VERIFY
\* or RETURN, a reserved word, an unknown, disabled or not-implemented
\* opcode, a numeric overflow
NamedFailures == {TransactionInvalidError, ReservedWordError,
                  NotImplementedError, ValueError}

\* C6: a run that one of the named opcode-level failures has ended
\* returned to its caller, with the failure reported by the sentinel on top
\* of the stack; it did not leave run as an exception.
C6_NamedFailuresReported ==
    error \in NamedFailures =>
        /\ outcome = "returned"
        /\ stack /= <<>>
        /\ Top(stack) = NoneItem

\* the opcodes the table displays as reserved words
ReservedWords ==
    {op \in 0..255 : /\ SCRIPT_OPS(op) /= <<>>
                     /\ SCRIPT_OPS(op)[1] \in {"RESERVED", "VER", "VERIF",
                            "VERNOTIF", "RESERVED1", "RESERVED2"}}

\* the opcode at the front of the script fails the way the claim lists
FailsScript ==
    /\ outcome = "running"
    /\ script /= <<>>
    /\ ~Inactive(ifstack)
    /\ \/ Head(script) = 106
       \/ Head(script) \in ReservedWords
       \/ Head(script) = 105 /\ stack /= <<>> /\ ~Truth(Top(stack))

\* C7: when the next opcode is a VERIFY over a falsy top item, a RETURN or
\* a reserved opcode and the branch is active, the step that executes it
\* ends the run normally, consumes nothing after that opcode, and leaves a
\* falsy item on top of the data stack.
C7_FailureLeavesSentinel ==
    [][FailsScript =>
          /\ outcome' = "returned"
          /\ script' = Tail(script)
          /\ stack' /= <<>>
          /\ ~Truth(Top(stack'))]_vars

\* the item a push opcode of the explored scripts leaves on the stack
Pushed(atom) ==
    IF atom = <<0>> THEN BytesItem(<<>>)
    ELSE IF Len(atom) = 1 THEN BytesItem(<<atom[1] - 80>>)
    ELSE BytesItem(Tail(atom))

\* C8: a finished run of <cond> IF <A> ELSE <B> ENDIF has returned and
\* left, above what was below cond, exactly the pushes of A when cond is
\* truthy and exactly the pushes of B when it is falsy; the reverse for
\* NOTIF.
C8_BranchTakenPushes ==
    (input.kind = "flow" /\ outcome /= "running") =>
        LET truthy == Truth(Pushed(input.cond))
            taken == IF (input.opener = 99) = truthy THEN input.A
                     ELSE input.B
        IN  /\ outcome = "returned"
            /\ stack = input.stack \o [i \in DOMAIN taken |-> Pushed(taken[i])]

\* the bytes of the script from offset `from` on that are not an
\* OP_CODESEPARATOR opcode
WithoutSeparators(whole, positions, from) ==
    LET kept == SelectSeq([i \in 1..Len(whole) |-> i],
                          LAMBDA i : /\ i > from
                                     /\ positions[i] /= OP_CODESEPARATOR)
    IN  [k \in 1..Len(kept) |-> whole[kept[k]]]

\* C9: the subscript OP_CHECKSIG substitutes is the script from the most
\* recent mark on with every OP_CODESEPARATOR opcode removed.
C9_SubscriptHasNoSeparator ==
    sigframe.built =>
        sigframe.subscript = WithoutSeparators(reference, parsed,
                                               sigframe.mark)

\* the shortest VarInt of a length below 2^16
MinimalVarInt(length) ==
    IF length < 253 THEN <<length>>
    ELSE <<253, length % 256, length \div 256>>

\* the inputs of the copy: the validated one carries the subscript, the
\* others an empty script
CopiedInputs(tx, index, subscript) ==
    [i \in DOMAIN tx[3] |->
        <<tx[3][i][1], tx[3][i][2],
          IF i = index + 1 THEN MinimalVarInt(Len(subscript)) ELSE <<0>>,
          IF i = index + 1 THEN subscript ELSE <<>>,
          tx[3][i][5]>>]

Preimage(tx, index, subscript, hashtype) ==
    LET inputs == CopiedInputs(tx, index, subscript)
    IN  tx[1] \o tx[2]
        \o join([i \in DOMAIN inputs |-> join(inputs[i])])
        \o tx[4]
        \o join([i \in DOMAIN tx[5] |-> join(tx[5][i])])
        \o tx[6]
        \o <<hashtype, 0, 0, 0>>

\* C10: once OP_CHECKSIG has built a preimage, the preimage is the
\* serialization of the transaction with every other input's script empty
\* under length 0x00, the validated input carrying the subscript under its
\* minimal VarInt, and the 4-byte little-endian hash type appended; the
\* enclosing transaction is as the caller passed it; and the copy that was
\* handed to tx_serialize still has its inputs as a list.
C10_PreimageBuiltOnCopy ==
    sigframe.built =>
        LET passed == TheTx(input.inputs)
        IN  /\ sigframe.serialized =
                   Preimage(passed, txindex, sigframe.subscript,
                            sigframe.hashtype)
            /\ txnew = passed
            /\ sigframe.txcopy =
                   [passed EXCEPT ![3] =
                       CopiedInputs(passed, txindex, sigframe.subscript)]

\* CHECKSIG has validated the second of two inputs and pushed its verdict
C10_Witness ==
    /\ sigframe.built
    /\ input.inputs = 2
    /\ txindex = 1
    /\ opcode = 172
    /\ error = ""
    /\ stack /= <<>>
    /\ Top(stack).kind = "bool"

\* the next opcode is `op` and the branch is active
Invokes(op) ==
    /\ outcome = "running"
    /\ script /= <<>>
    /\ ~Inactive(ifstack)
    /\ Head(script) = op

\* CAT, INVERT, AND, OR, XOR, 2MUL, 2DIV
DisabledByClaim == {126, 131, 132, 133, 134, 141, 142}

\* C11: invoking CAT, AND, OR, XOR, INVERT, 2MUL or 2DIV makes the script
\* fail whatever the stack holds, and the data stack keeps the items it
\* had (with at most the failure sentinel added).
C11_DisabledOpcodesFail ==
    [][(\E op \in DisabledByClaim : Invokes(op)) =>
          /\ outcome' /= "running"
          /\ error' /= ""
          /\ stack' \in {stack, Append(stack, NoneItem)}]_vars

\* the items of the stack below its top k, and the k-th item from the top
Lower(k) == SubSeq(stack, 1, Len(stack) - k)
FromTop(k) == stack[Len(stack) - k + 1]

\* how many items a stack-shape opcode needs
Needs(op) ==
    CASE op \in {110, 119, 120, 124, 125} -> 2
      [] op = 123 -> 3
      [] op = 114 -> 4
      [] op = 113 -> 6

\* the stack the opcode is documented to leave
Rearranged(op) ==
    CASE op = 123 -> Lower(3) \o <<FromTop(2), FromTop(1), FromTop(3)>>
      [] op = 114 -> Lower(4) \o <<FromTop(2), FromTop(1),
                                   FromTop(4), FromTop(3)>>
      [] op = 120 -> stack \o <<FromTop(2)>>
      [] op = 119 -> Lower(2) \o <<FromTop(1)>>
      [] op = 124 -> Lower(2) \o <<FromTop(1), FromTop(2)>>
      [] op = 125 -> Lower(2) \o <<FromTop(1), FromTop(2), FromTop(1)>>
      [] op = 110 -> stack \o <<FromTop(2), FromTop(1)>>
      [] op = 113 -> Lower(6) \o <<FromTop(4), FromTop(3), FromTop(2),
                                   FromTop(1), FromTop(6), FromTop(5)>>

\* C16: on a stack with enough items ROT, 2SWAP, OVER, NIP, SWAP, TUCK,
\* 2DUP and 2ROT rearrange the top items as documented, leave the items
\* below them as they were, and the run goes on.
C16_ShapeOpcodesRearrangeTop ==
    [][\A op \in {110, 113, 114, 119, 120, 123, 124, 125} :
          (Invokes(op) /\ Len(stack) >= Needs(op)) =>
              /\ stack' = Rearranged(op)
              /\ error' = ""
              /\ outcome' = "running"]_vars

\* 2ROT has run on seven items: the lowest stayed, the pair above it is
\* on top
C16_Witness ==
    /\ input.kind = "shape"
    /\ reference = <<113, 125>>
    /\ Len(script) = 1
    /\ opcode = 113
    /\ stack = [i \in 1..7 |->
                   BytesItem(<<(<<1, 4, 5, 6, 7, 2, 3>>)[i]>>)]

----------------------------------------------------------------------------
\* blockparse.py and script.py: the conversion functions

StructError == "struct.error"

\* the script is idle and nextblock has not been fed
Idle ==
    /\ InitNextblock
    /\ forkAt = 0
    /\ universe = {}
    /\ dupBudget = 0
    /\ orphanBudget = 0
    /\ ScriptIdle

\* get_count(data), in blockparse.py and, line for line, in parser.py
get_count(data) ==
    IF data = <<>>
    THEN [exc |-> IndexError, raw |-> <<>>, count |-> Limbs(0), data |-> data]
    ELSE LET offset == IF data[1] >= 253 THEN 1 ELSE 0
             length == CASE data[1] = 253 -> 2
                         [] data[1] = 254 -> 4
                         [] data[1] = 255 -> 8
                         [] OTHER -> 1
             field == Slice(data, offset, offset + length)
         IN  IF Len(field) < length
             THEN [exc |-> StructError, raw |-> <<>>, count |-> Limbs(0),
                   data |-> data]
             ELSE [exc |-> "", raw |-> Take(data, offset + length),
                   count |-> unpack_le(field),
                   data |-> Drop(data, offset + length)]

\* to_long(bytestring): UNPACKER has the lengths 1, 2, 4 and 8 only
to_long(bytestring) ==
    IF Len(bytestring) \in {1, 2, 4, 8}
    THEN [exc |-> "", val |-> unpack_le(bytestring)]
    ELSE [exc |-> KeyError, val |-> Limbs(0)]

\* show_long(bytestring): the exception it raises, "" if none; the string it
\* returns is logged only
show_long(bytestring) == to_long(bytestring).exc

\* value > 100000000000000, the number being 0x5af3107a4000
UnusualValue(value) ==
    \/ value[4] > 0
    \/ value[4] = 0 /\ value[3] > 23283
    \/ value[4] = 0 /\ value[3] = 23283 /\ value[2] > 4218
    \/ value[4] = 0 /\ value[3] = 23283 /\ value[2] = 4218 /\ value[1] > 16384

\* a count used as a slice bound or as range(count): one of 2^30 and more
\* is beyond the end of every buffer
AsIndex(count) ==
    IF count[4] /= 0 \/ count[3] /= 0 \/ count[2] >= 16384 THEN 1073741824
    ELSE count[1] + 65536 * count[2]

Raised(exc) == [exc |-> exc, raw |-> <<>>, fields |-> <<>>, data |-> <<>>]

\* parse_input(data); the logging calls evaluate show_long before they log
parse_input(data) ==
    LET previous_hash == Take(data, 32)
        previous_index == Slice(data, 32, 36)
    IN  IF show_long(previous_index) /= ""
        THEN Raised(show_long(previous_index))
        ELSE Only({
            LET script_length == AsIndex(length.count)
                scriptbytes == Take(length.data, script_length)
                after == Drop(length.data, script_length)
                sequence == Take(after, 4)
            IN  IF length.exc /= "" THEN Raised(length.exc)
                ELSE IF show_long(sequence) /= ""
                THEN Raised(show_long(sequence))
                ELSE [exc |-> "",
                      raw |-> Take(data, 36) \o length.raw \o scriptbytes
                                  \o sequence,
                      fields |-> <<previous_hash, previous_index, length.raw,
                                   scriptbytes, sequence>>,
                      data |-> Drop(after, 4)]
            : length \in {get_count(Drop(data, 36))} })

\* parse_output(data); debug is __debug__, false when the interpreter runs
\* with -O or -OO as the first line of the file asks
parse_output(data, debug) ==
    LET raw_amount == Take(data, 8)
        value == to_long(raw_amount)
    IN  IF value.exc /= "" THEN Raised(value.exc)
        ELSE IF debug /\ UnusualValue(value.val) THEN Raised(ValueError)
        ELSE Only({
            LET script_length == AsIndex(length.count)
                scriptbytes == Take(length.data, script_length)
            IN  IF length.exc /= "" THEN Raised(length.exc)
                ELSE [exc |-> "",
                      raw |-> raw_amount \o length.raw \o scriptbytes,
                      fields |-> <<raw_amount, length.raw, scriptbytes>>,
                      data |-> Drop(length.data, script_length)]
            : length \in {get_count(Drop(data, 8))} })

\* parse_inputs(count, data): raw is the list raw_inputs
RECURSIVE parse_inputs(_, _)
parse_inputs(count, data) ==
    IF count = 0
    THEN [exc |-> "", raw |-> <<>>, fields |-> <<>>, data |-> data]
    ELSE Only({
        IF first.exc /= "" THEN first
        ELSE Only({
            IF others.exc /= "" THEN others
            ELSE [exc |-> "", raw |-> <<first.raw>> \o others.raw,
                  fields |-> <<first.fields>> \o others.fields,
                  data |-> others.data]
            : others \in {parse_inputs(count - 1, first.data)} })
        : first \in {parse_input(data)} })

\* parse_outputs(count, data)
RECURSIVE parse_outputs(_, _, _)
parse_outputs(count, data, debug) ==
    IF count = 0
    THEN [exc |-> "", raw |-> <<>>, fields |-> <<>>, data |-> data]
    ELSE Only({
        IF first.exc /= "" THEN first
        ELSE Only({
            IF others.exc /= "" THEN others
            ELSE [exc |-> "", raw |-> <<first.raw>> \o others.raw,
                  fields |-> <<first.fields>> \o others.fields,
                  data |-> others.data]
            : others \in {parse_outputs(count - 1, first.data, debug)} })
        : first \in {parse_output(data, debug)} })

\* parse_transaction(data)
parse_transaction(data, debug) ==
    LET version == Take(data, 4)
    IN  IF show_long(version) /= "" THEN Raised(show_long(version))
        ELSE Only({
          IF in_count.exc /= "" THEN Raised(in_count.exc)
          ELSE Only({
            IF inputs.exc /= "" THEN inputs
            ELSE Only({
              IF out_count.exc /= "" THEN Raised(out_count.exc)
              ELSE Only({
                IF outputs.exc /= "" THEN outputs
                ELSE LET lock_time == Take(outputs.data, 4)
                     IN  [exc |-> "",
                          raw |-> version \o in_count.raw \o join(inputs.raw)
                                      \o out_count.raw \o join(outputs.raw)
                                      \o lock_time,
                          fields |-> <<version, in_count.raw, inputs.fields,
                                       out_count.raw, outputs.fields,
                                       lock_time>>,
                          data |-> Drop(outputs.data, 4)]
                : outputs \in {parse_outputs(AsIndex(out_count.count),
                                             out_count.data, debug)} })
              : out_count \in {get_count(inputs.data)} })
            : inputs \in {parse_inputs(AsIndex(in_count.count),
                                       in_count.data)} })
          : in_count \in {get_count(Drop(data, 4))} })

\* bytevector(number) for a number given by sign and magnitude: struct.pack
\* refuses 2^32 and more, and a magnitude of 2^31 and more has its top bit
\* set, gets a fifth byte, and is refused by the length check
bytevector_wide(negative, magnitude) ==
    IF magnitude[3] /= 0 \/ magnitude[4] /= 0
    THEN [exc |-> StructError, val |-> <<>>]
    ELSE IF magnitude[2] >= 32768
    THEN [exc |-> ValueError, val |-> <<>>]
    ELSE LET n == magnitude[1] + 65536 * magnitude[2]
         IN  [exc |-> "", val |-> bytevector(IF negative THEN 0 - n ELSE n)]

\* the transactions handed to parse_transaction: one or two inputs, counts
\* and lengths in their shortest VarInt or in a longer one, an output of 80,
\* of 10^14 or of 2 * 10^14 base units
Transactions ==
    LET txin(length, scriptbytes) ==
            << [k \in 1..32 |-> 7], <<0, 0, 0, 0>>, length, scriptbytes,
               <<255, 255, 255, 254>> >>
        txout(amount) == <<amount, <<1>>, <<172>> >>
    IN  { << <<1, 0, 0, 0>>, count[2],
             [i \in 1..count[1] |-> txin(length, <<81, 82>>)],
             <<1>>, <<txout(amount)>>, <<9, 0, 0, 0>> >> :
            count \in {<<1, <<1>> >>, <<1, <<253, 1, 0>> >>, <<2, <<2>> >>},
            length \in {<<2>>, <<254, 2, 0, 0, 0>>},
            amount \in {<<80, 0, 0, 0, 0, 0, 0, 0>>,
                        <<0, 64, 122, 16, 243, 90, 0, 0>>,
                        <<0, 128, 244, 32, 230, 181, 0, 0>>} }

\* the conversions, each applied to an input and then undone: varint_length
\* and get_count, bytevector and number, parse_transaction and tx_serialize;
\* parse_transaction gets a transaction followed by other bytes, or the
\* first `cut` bytes of one
\* nextfile(filename) on the text of a name: a name is a string of
\* characters, each its code point ('/' 47, '.' 46, '0' 48, '9' 57, 'b' 98)
MaxName == 5
Characters == {47, 46, 48, 57, 98}
Names == UNION {[1..k -> Characters] : k \in 0..MaxName}

IsDigit(c) == c \in 48..57

\* filename.rfind('/') + 1
AfterLastSlash(p) ==
    IF \E i \in DOMAIN p : p[i] = 47
    THEN CHOOSE i \in DOMAIN p : p[i] = 47 /\ \A j \in (i + 1)..Len(p) : p[j] /= 47
    ELSE 0

\* os.path.split(filename): the head loses its trailing slashes unless it
\* is made of slashes only
path_split(p) ==
    LET i    == AfterLastSlash(p)
        head == SubSeq(p, 1, i)
        keep == {k \in DOMAIN head : head[k] /= 47}
    IN  [directory |-> IF keep = {} THEN head
                       ELSE SubSeq(head, 1, CHOOSE k \in keep :
                                                \A j \in keep : j <= k),
         filename |-> SubSeq(p, i + 1, Len(p))]

\* os.path.join(directory, filename) for a filename that has no slash
path_join(directory, filename) ==
    IF directory[Len(directory)] = 47 THEN directory \o filename
    ELSE directory \o <<47>> \o filename

\* re.compile(pattern).match(filename): non-digits, one run of digits,
\* non-digits, and nothing else
match(filename) ==
    LET digits == {i \in DOMAIN filename : IsDigit(filename[i])}
    IN  IF digits = {} \/ \E i, j \in digits :
                              \E k \in i..j : k \notin digits
        THEN [matched |-> FALSE, prefix |-> <<>>, number |-> <<>>,
              suffix |-> <<>>]
        ELSE LET first == CHOOSE i \in digits : \A j \in digits : i <= j
                 final == CHOOSE i \in digits : \A j \in digits : j <= i
             IN  [matched |-> TRUE,
                  prefix |-> SubSeq(filename, 1, first - 1),
                  number |-> SubSeq(filename, first, final),
                  suffix |-> SubSeq(filename, final + 1, Len(filename))]

\* int(text) of a string of digits
RECURSIVE int(_)
int(text) ==
    IF text = <<>> THEN 0
    ELSE 10 * int(SubSeq(text, 1, Len(text) - 1)) + (text[Len(text)] - 48)

\* '{number:0{width}}'.format(...): decimal, zero-padded up to the width
RECURSIVE decimal(_)
decimal(n) ==
    IF n < 10 THEN <<48 + n>> ELSE Append(decimal(n \div 10), 48 + (n % 10))

format(n, width) ==
    [i \in 1..(width - Len(decimal(n))) |-> 48] \o decimal(n)

\* nextfile(filename): [exc, name]
nextfile_name(filename) ==
    LET parts == path_split(filename)
        found == match(parts.filename)
        newnumber == format(int(found.number) + 1, Len(found.number))
        renamed == found.prefix \o newnumber \o found.suffix
    IN  IF ~found.matched THEN [exc |-> ValueError, name |-> <<>>]
        ELSE [exc |-> "",
              name |-> IF parts.directory /= <<>>
                       THEN path_join(parts.directory, renamed)
                       ELSE renamed]

\* script_compile(script) and the listing parse makes of what it compiled.
\* A word of a script source is an opcode name or a string of data bytes;
\* the listing also holds numbers (OP_2 to OP_16) and unknown opcodes.
MaxWords == 2

NameWord(name) == [kind |-> "name", name |-> name, data |-> <<>>]
DataWord(data) == [kind |-> "data", name |-> "", data |-> data]

\* the display entries of SCRIPT_OPS that are routines, not opcode names:
\* LOOKUP leaves them out
DisplayRoutines == {"op_pushdata", "op_pushdata1", "op_pushdata2",
                    "op_pushdata4", "op_shownumber"}

\* LOOKUP[word]
LOOKUP(word) ==
    CHOOSE op \in 0..255 :
        SCRIPT_OPS(op) /= <<>> /\ SCRIPT_OPS(op)[1] = word

\* script_compile(script) for words that are opcode names or bytes: the
\* branches for hex text and for integers are not entered
RECURSIVE script_compile(_)
script_compile(words) ==
    IF words = <<>> THEN <<>>
    ELSE LET word == Head(words)
             size == Len(word.data)
             compiled ==
                 IF word.kind = "name" THEN <<LOOKUP(word.name)>>
                 ELSE IF size <= 75 THEN <<size>> \o word.data
                 ELSE IF size <= 255 THEN <<76, size>> \o word.data
                 ELSE IF size <= 65535
                 THEN <<77>> \o pack_le(Limbs(size), 2) \o word.data
                 ELSE <<78>> \o pack_le(Limbs(size), 4) \o word.data
         IN  compiled \o script_compile(Tail(words))

\* parse(scriptbinary)[1]: [exc, words], the listing of the script
RECURSIVE listing(_)
listing(scriptbinary) ==
    IF scriptbinary = <<>> THEN [exc |-> "", words |-> <<>>]
    ELSE LET op == Head(scriptbinary)
             f == [stack |-> <<>>, script |-> Tail(scriptbinary), exc |-> ""]
             operation == SCRIPT_OPS(op)
             display_op == IF operation = <<>> THEN "" ELSE operation[1]
             after == CASE display_op = "op_pushdata" -> op_pushdata(f, op)
                        [] display_op = "op_pushdata1" -> op_pushdata1(f)
                        [] display_op = "op_pushdata2" -> op_pushdata2(f)
                        [] display_op = "op_pushdata4" -> op_pushdata4(f)
                        [] OTHER -> f
             shown == IF operation = <<>>
                      THEN [kind |-> "unknown", name |-> "", data |-> <<op>>]
                      ELSE IF display_op = "op_shownumber"
                      THEN [kind |-> "number", name |-> "",
                            data |-> <<op - 80>>]
                      ELSE IF display_op \in DisplayRoutines
                      THEN DataWord(Top(after.stack).val)
                      ELSE NameWord(display_op)
         IN  IF after.exc /= "" THEN [exc |-> after.exc, words |-> <<>>]
             ELSE LET rest == listing(after.script)
                  IN  [exc |-> rest.exc,
                       words |-> IF rest.exc /= "" THEN <<>>
                                 ELSE <<shown>> \o rest.words]

\* the sources compiled: opcode names, and data at both sides of the
\* lengths where the push opcode changes
SourceWords ==
    {NameWord(name) : name \in {"DUP", "-1"}}
        \cup {DataWord([i \in 1..size |-> 7]) :
                 size \in {1, 75, 76, 255, 256, 65536}}

InitConvert ==
    /\ Idle
    /\ ReaderIdle
    /\ DriverIdle
    /\ \/ \E length \in [1..4 -> {0, 1, 252, 253, 65535}],
             rest \in {<<>>, <<253>>} :
            call = [fn |-> "varint_length", stage |-> "input", n |-> length,
                    rest |-> rest, raw |-> <<>>, exc |-> "",
                    count |-> Limbs(0), data |-> <<>>]
       \/ \E negative \in BOOLEAN,
             low \in {0, 1, 127, 128, 255, 256, 1000, 32767, 32768, 65535},
             high \in {0, 1, 127, 128, 255, 256, 32767, 32768, 65535},
             top \in {0, 1} :
            /\ negative => low + high + top > 0
            /\ call = [fn |-> "bytevector", stage |-> "input",
                       negative |-> negative, n |-> <<low, high, top, 0>>,
                       vector |-> <<>>, exc |-> "", back |-> 0]
       \/ \E transaction \in Transactions, debug \in BOOLEAN,
             rest \in {<<>>, <<253>>, <<1, 0, 0, 0, 0>>} :
            LET whole == tx_serialize(transaction).bytes
            IN  \E cut \in 0..Len(whole) :
                  /\ rest /= <<>> => cut = Len(whole)
                  /\ call = [fn |-> "parse_transaction", stage |-> "input",
                             debug |-> debug, transaction |-> transaction,
                             whole |-> whole, rest |-> rest,
                             argument |-> Take(whole, cut) \o rest,
                             exc |-> "", raw |-> <<>>, fields |-> <<>>,
                             data |-> <<>>, serialized |-> <<>>]
       \/ \E words \in UNION {[1..k -> SourceWords] : k \in 0..MaxWords} :
            call = [fn |-> "script_compile", stage |-> "input",
                    words |-> words, compiled |-> <<>>, exc |-> "",
                    parsed |-> <<>>, readable |-> <<>>]
       \/ \E filename \in Names :
            call = [fn |-> "nextfile", stage |-> "input",
                    filename |-> filename, exc |-> "", name |-> <<>>]

VarIntLength ==
    /\ call.fn = "varint_length"
    /\ call.stage = "input"
    /\ call' = [call EXCEPT !.stage = "encoded", !.raw = varint(call.n)]
    /\ UNCHANGED <<chainvars, scriptvars, readervars, drivervars>>

GetCount ==
    /\ call.fn = "varint_length"
    /\ call.stage = "encoded"
    /\ LET r == get_count(call.raw \o call.rest)
       IN  call' = [call EXCEPT !.stage = "decoded", !.exc = r.exc,
                                !.raw = r.raw, !.count = r.count,
                                !.data = r.data]
    /\ UNCHANGED <<chainvars, scriptvars, readervars, drivervars>>

ByteVector ==
    /\ call.fn = "bytevector"
    /\ call.stage = "input"
    /\ LET r == bytevector_wide(call.negative, call.n)
       IN  call' = [call EXCEPT !.stage = "encoded", !.vector = r.val,
                                !.exc = r.exc]
    /\ UNCHANGED <<chainvars, scriptvars, readervars, drivervars>>

Number ==
    /\ call.fn = "bytevector"
    /\ call.stage = "encoded"
    /\ call.exc = ""
    /\ LET r == number(BytesItem(call.vector))
       IN  call' = [call EXCEPT !.stage = "decoded", !.back = r.val,
                                !.exc = r.exc]
    /\ UNCHANGED <<chainvars, scriptvars, readervars, drivervars>>

ParseTransaction ==
    /\ call.fn = "parse_transaction"
    /\ call.stage = "input"
    /\ LET r == parse_transaction(call.argument, call.debug)
       IN  call' = [call EXCEPT !.stage = "parsed", !.exc = r.exc,
                                !.raw = r.raw, !.fields = r.fields,
                                !.data = r.data]
    /\ UNCHANGED <<chainvars, scriptvars, readervars, drivervars>>

TxSerialize ==
    /\ call.fn = "parse_transaction"
    /\ call.stage = "parsed"
    /\ call.exc = ""
    /\ call' = [call EXCEPT !.stage = "serialized",
                            !.serialized = tx_serialize(call.fields).bytes]
    /\ UNCHANGED <<chainvars, scriptvars, readervars, drivervars>>

NextFile ==
    /\ call.fn = "nextfile"
    /\ call.stage = "input"
    /\ \E r \in {nextfile_name(call.filename)} :
          call' = [call EXCEPT !.stage = "done", !.exc = r.exc,
                               !.name = r.name]
    /\ UNCHANGED <<chainvars, scriptvars, readervars, drivervars>>

ScriptCompile ==
    /\ call.fn = "script_compile"
    /\ call.stage = "input"
    /\ call' = [call EXCEPT !.stage = "compiled",
                            !.compiled = script_compile(call.words)]
    /\ UNCHANGED <<chainvars, scriptvars, readervars, drivervars>>

Parse ==
    /\ call.fn = "script_compile"
    /\ call.stage = "compiled"
    /\ \E r \in {listing(call.compiled)} :
          call' = [call EXCEPT !.stage = "parsed", !.exc = r.exc,
                               !.readable = r.words,
                               !.parsed = IF r.exc = "" THEN parse(call.compiled)
                                          ELSE <<>>]
    /\ UNCHANGED <<chainvars, scriptvars, readervars, drivervars>>

NextConvert ==
    \/ VarIntLength
    \/ GetCount
    \/ ByteVector
    \/ Number
    \/ ParseTransaction
    \/ TxSerialize
    \/ NextFile
    \/ ScriptCompile
    \/ Parse

SpecConvert == InitConvert /\ [][NextConvert]_vars

----------------------------------------------------------------------------
\* Claims about the conversion functions

\* the width the VarInt of a length must have, and its first byte
MinimalWidth(length) ==
    IF length[4] /= 0 \/ length[3] /= 0 THEN 9
    ELSE IF length[2] /= 0 THEN 5
    ELSE IF length[1] >= 253 THEN 3
    ELSE 1

\* C14: get_count of varint_length's encoding of n, whatever follows it,
\* returns n, consumes exactly the encoded bytes, and the encoding has the
\* minimal width: 1 byte below 0xfd, else 0xfd and 2 bytes up to 0xffff,
\* else 0xfe and 4 bytes up to 0xffffffff, else 0xff and 8 bytes.
C14_VarIntRoundTrip ==
    /\ (call.fn = "varint_length" /\ call.stage = "encoded") =>
          /\ Len(call.raw) = MinimalWidth(call.n)
          /\ call.raw[1] = CASE Len(call.raw) = 1 -> call.n[1]
                             [] Len(call.raw) = 3 -> 253
                             [] Len(call.raw) = 5 -> 254
                             [] Len(call.raw) = 9 -> 255
    /\ (call.fn = "varint_length" /\ call.stage = "decoded") =>
          /\ call.exc = ""
          /\ call.count = call.n
          /\ Len(call.raw) = MinimalWidth(call.n)
          /\ call.data = call.rest

\* the length 253 came back from its three bytes, and 2^64 - 1 from nine
C14_Witness ==
    /\ call.fn = "varint_length"
    /\ call.stage = "decoded"
    /\ call.rest /= <<>>
    /\ \/ call.n = <<253, 0, 0, 0>> /\ call.raw = <<253, 253, 0>>
       \/ call.n = <<65535, 65535, 65535, 65535>> /\ Len(call.raw) = 9

\* the number of bytes the Script encoding of a magnitude below 2^31 needs
MinimalLen(magnitude) ==
    IF magnitude[2] >= 128 THEN 4
    ELSE IF magnitude[2] > 0 \/ magnitude[1] >= 32768 THEN 3
    ELSE IF magnitude[1] >= 128 THEN 2
    ELSE IF magnitude[1] > 0 THEN 1
    ELSE 0

\* the magnitude needs more than four bytes
TooLarge(magnitude) ==
    magnitude[4] /= 0 \/ magnitude[3] /= 0 \/ magnitude[2] >= 32768

Complete ==
    /\ call.fn = "parse_transaction"
    /\ call.argument = call.whole \o call.rest

\* parse_transaction got a transaction cut short
Truncated ==
    /\ call.fn = "parse_transaction"
    /\ Len(call.argument) < Len(call.whole)

\* C12: parse_transaction of a well-formed transaction followed by other
\* bytes returns raw, fields and rest with raw \o rest the input, the fields
\* (VarInts included) as they were read, and tx_serialize(fields) = raw.
C12_ParseRoundTrip ==
    /\ (Complete /\ call.stage = "parsed") =>
          /\ call.exc = ""
          /\ call.raw \o call.data = call.argument
          /\ call.data = call.rest
          /\ call.fields = call.transaction
    /\ (Complete /\ call.stage = "serialized") =>
          call.serialized = call.raw

\* C13: parse_transaction of a truncated buffer raises an error; it never
\* returns a transaction with a script shorter than its declared length or
\* a fixed-width field shorter than its width.
C13_TruncationRaises ==
    (Truncated /\ call.stage = "parsed") => call.exc /= ""

----------------------------------------------------------------------------
\* blockparse.py: nextchunk, reading the block files while they are written

PREFIX_LENGTH == 8
MaxWrites == 2
MaxFiles == 3

\* MAGIC['bitcoin']
MAGIC == <<249, 190, 180, 217>>

\* the i-th chunk of the stream: magic, length of the body, body
chunk(i) ==
    LET body == [k \in 1..(1 + (i % 2)) |-> 100 + i]
    IN  MAGIC \o pack_le(Limbs(Len(body)), 4) \o body

\* blk0001.dat, blk0002.dat, ... are named by their numbers here
nextfile(filename) == filename + 1

\* os.path.exists(filename)
exists(filename) == filename \in 1..Len(disk)

\* the bytes of a file: what was written, then the zeroes it was prefilled
\* with and that have not been overwritten
Content(filename) ==
    disk[filename].data \o [i \in 1..disk[filename].pad |-> 0]

\* openfile.read(count)
Read(openfile, count) ==
    Slice(Content(openfile.name), openfile.pos, openfile.pos + count)

NoFile == [name |-> 0, pos |-> 0, closed |-> TRUE]

\* open(filename, 'rb')
Open(filename) == [name |-> filename, pos |-> 0, closed |-> FALSE]

\* nextprefix(openfile): struct.unpack raises struct.error, and blocksize is
\* 0, unless prefix[4:] has four bytes
nextprefix(openfile) ==
    LET prefix == Read(openfile, PREFIX_LENGTH)
    IN  [prefix |-> prefix,
         blocksize |-> IF Len(Drop(prefix, 4)) = 4
                       THEN AsIndex(unpack_le(Drop(prefix, 4)))
                       ELSE 0,
         offset |-> openfile.pos,
         openfile |-> [openfile EXCEPT !.pos = @ + Len(prefix)]]

\* height += 1, and the test of the while loop
NextHeight(r) ==
    [r EXCEPT !.height = @ + 1,
              !.pc = IF r.height + 1 <= r.maxheight THEN "prefix"
                     ELSE "returned"]

\* the lines both branches end with: without wait, raise StopIteration,
\* which a generator turns into RuntimeError since Python 3.7 and which ends
\* it silently before; with wait, time.sleep
EndOfData(r, generator_stop) ==
    IF ~r.wait
    THEN [r EXCEPT !.done = TRUE,
                   !.pc = IF generator_stop THEN "raised" ELSE "returned",
                   !.error = IF generator_stop THEN "RuntimeError" ELSE ""]
    ELSE [r EXCEPT !.pc = "sleep"]

\* if prefix == b'':
EmptyRead(r, generator_stop) ==
    LET advance == [r EXCEPT !.fileindex = @ + 1, !.currentfile.closed = TRUE]
    IN  IF r.fileindex = Len(r.blockfiles) - 1
        THEN IF exists(nextfile(r.blockfiles[Len(r.blockfiles)]))
             THEN [advance EXCEPT !.blockfiles =
                       Append(@, nextfile(r.blockfiles[Len(r.blockfiles)]))]
             ELSE EndOfData(r, generator_stop)
        ELSE advance

\* elif not any(bytes(prefix)):
ZeroPrefix(r, generator_stop) == EndOfData(r, generator_stop)

\* else: a chunk to be read, or to be skipped when below minheight
Chunk(r) ==
    IF r.minheight <= r.height /\ r.height <= r.maxheight
    THEN [r EXCEPT !.pc = "body"]
    ELSE NextHeight([r EXCEPT !.currentfile.pos = @ + r.blocksize])

\* the branch nextchunk takes on a prefix
AfterPrefix(r, generator_stop) ==
    IF r.prefix = <<>> THEN EmptyRead(r, generator_stop)
    ELSE IF \A i \in DOMAIN r.prefix : r.prefix[i] = 0
    THEN ZeroPrefix(r, generator_stop)
    ELSE Chunk(r)

\* one pass of the while loop up to the branch: open the file if none is
\* open, read a prefix
NextPrefix ==
    /\ reader.pc = "prefix"
    /\ \E openfile \in {IF reader.currentfile.closed
                        THEN Open(reader.blockfiles[reader.fileindex + 1])
                        ELSE reader.currentfile} :
        \E p \in {nextprefix(openfile)} :
          \E r \in {[reader EXCEPT !.currentfile = p.openfile,
                                   !.prefix = p.prefix,
                                   !.blocksize = p.blocksize,
                                   !.offset = p.offset]} :
            \E generator_stop \in BOOLEAN :
              reader' = AfterPrefix(r, generator_stop)
    /\ UNCHANGED <<disk, writer, served, chainvars, scriptvars, call,
                   drivervars>>

\* blockdata = currentfile.read(blocksize), and the yield
ReadBody ==
    /\ reader.pc = "body"
    /\ LET blockdata == Read(reader.currentfile, reader.blocksize)
       IN  /\ served' = Append(served,
                  [rawblock |-> reader.prefix \o blockdata,
                   rawheight |-> reader.height,
                   file |-> reader.blockfiles[reader.fileindex + 1],
                   offset |-> reader.offset,
                   length |-> reader.blocksize + PREFIX_LENGTH])
           /\ reader' = [reader EXCEPT !.pc = "yield",
                                       !.currentfile.pos = @ + Len(blockdata)]
    /\ UNCHANGED <<disk, writer, chainvars, scriptvars, call,
                   drivervars>>

\* the consumer asks for the next chunk: height += 1
NextHeightAfterYield ==
    /\ reader.pc = "yield"
    /\ reader' = NextHeight(reader)
    /\ UNCHANGED <<disk, writer, served, chainvars, scriptvars, call,
                   drivervars>>

\* time.sleep(10) returns: close, reopen, seek(offset), continue
Wake ==
    /\ reader.pc = "sleep"
    /\ reader' = [reader EXCEPT !.pc = "prefix",
                                !.currentfile.pos = reader.offset]
    /\ UNCHANGED <<disk, writer, served, chainvars, scriptvars, call,
                   drivervars>>

\* the offsets in a chunk at which a write of the other process may end:
\* inside the prefix, after it, inside the body, at the end
WriteEnds(whole) == {3, PREFIX_LENGTH, PREFIX_LENGTH + 1, Len(whole)}

\* the other process writes the next bytes of a chunk to the last file
Write ==
    /\ reader.pc \notin {"idle", "returned", "raised"}
    /\ writer.partial /= <<>> \/ writer.todo /= <<>>
    /\ LET fresh == writer.partial = <<>>
           whole == chunk(Head(writer.todo))
           rest == IF fresh THEN whole ELSE writer.partial
       IN  \E end \in WriteEnds(whole) :
             LET count == end - (Len(whole) - Len(rest))
             IN  /\ count > 0
                 /\ disk' = [disk EXCEPT ![Len(disk)] =
                        [data |-> @.data \o Take(rest, count),
                         pad |-> Max(@.pad - count, 0)]]
                 /\ writer' = [writer EXCEPT
                        !.partial = Drop(rest, count),
                        !.todo = IF count = Len(rest) THEN Tail(@) ELSE @,
                        !.stored = IF count = Len(rest) THEN @ + 1 ELSE @,
                        !.wrote = @ + 1]
    /\ UNCHANGED <<reader, served, chainvars, scriptvars, call,
                   drivervars>>

\* the other process starts the next file, between two chunks
Rotate ==
    /\ reader.pc \notin {"idle", "returned", "raised"}
    /\ writer.partial = <<>>
    /\ writer.todo /= <<>>
    /\ Len(disk) < MaxFiles
    /\ disk' = Append(disk, [data |-> <<>>, pad |-> writer.pad])
    /\ writer' = [writer EXCEPT !.wrote = @ + 1]
    /\ UNCHANGED <<reader, served, chainvars, scriptvars, call,
                   drivervars>>

\* how many chunks each file holds when nextchunk is called
Layouts == {<<0>>, <<2>>, <<1, 1>>, <<1, 0>>}

\* nextchunk(blockfiles, minblock, maxblock, wait) is called on files of
\* whole chunks, prefilled with zeroes or not, that another process may go
\* on writing
InitReader ==
    /\ Idle
    /\ call = [fn |-> "none"]
    /\ \E layout \in Layouts, pad \in {0, PREFIX_LENGTH},
          wait \in BOOLEAN, minblock \in {0, 1}, maxblock \in {1, 100},
          more \in 0..MaxWrites :
         \E listed \in 1..Len(layout) :
           LET before(j) == IF j = 1 THEN 0 ELSE layout[1]
               total == before(Len(layout)) + layout[Len(layout)]
           IN  /\ disk = [j \in 1..Len(layout) |->
                     [data |-> join([k \in 1..layout[j] |->
                                        chunk(before(j) + k - 1)]),
                      pad |-> pad]]
               /\ writer = [todo |-> [k \in 1..more |-> total + k - 1],
                            partial |-> <<>>, wrote |-> 0, pad |-> pad,
                            stored |-> total]
               /\ reader = [pc |-> "prefix", wait |-> wait,
                            minheight |-> minblock, maxheight |-> maxblock,
                            blockfiles |-> [j \in 1..listed |-> j],
                            fileindex |-> 0, currentfile |-> NoFile,
                            offset |-> 0, height |-> 0, done |-> FALSE,
                            prefix |-> <<>>, blocksize |-> 0, error |-> ""]
    /\ served = <<>>
    /\ DriverIdle

NextReader ==
    \/ NextPrefix
    \/ ReadBody
    \/ NextHeightAfterYield
    \/ Wake
    \/ Write
    \/ Rotate

SpecReader == InitReader /\ [][NextReader]_vars

\* nextchunk under follow mode, with a loop that keeps running: sleep
\* returns, and the consumer asks for the next chunk after each one
InitFollow == InitReader /\ reader.wait

Loop == NextPrefix \/ ReadBody \/ NextHeightAfterYield \/ Wake

SpecFollow == InitFollow /\ [][NextReader]_vars /\ WF_vars(Loop)

----------------------------------------------------------------------------
\* Claims about nextchunk

\* C17: every chunk nextchunk yields is the 8-byte prefix and exactly the
\* declared number of body bytes, len(rawblock) = 8 + declared length =
\* 'length', also while another process has written only part of a prefix,
\* or a prefix without all of its body.
C17_ChunkIsPrefixAndBody ==
    \A i \in DOMAIN served :
        /\ Len(served[i].rawblock) = served[i].length
        /\ Len(served[i].rawblock) >= PREFIX_LENGTH
        /\ served[i].length = PREFIX_LENGTH
               + AsIndex(unpack_le(Slice(served[i].rawblock, 4, 8)))

\* nextchunk has ended, by returning or with an error
Ended == reader.pc \in {"returned", "raised"}

\* the files have held whole chunks only, since before nextchunk was called
WholeChunks == writer.wrote = 0 /\ writer.pad = 0

\* chunks low..high of the stream, each at its height
Stream(low, high) ==
    [i \in 1..(high - low + 1) |->
        [rawblock |-> chunk(low + i - 1), rawheight |-> low + i - 1]]

\* what nextchunk has yielded: the bytes and the height
Yielded ==
    [i \in DOMAIN served |->
        [rawblock |-> served[i].rawblock, rawheight |-> served[i].rawheight]]

\* C18: with follow mode off and files of whole chunks, nextchunk yields
\* the chunks of all files in order, successor files included, the k-th at
\* rawheight k, only those with minblock <= k <= maxblock, and then ends
\* normally, without an error.
C18_AllChunksThenDone ==
    (Ended /\ ~reader.wait /\ WholeChunks) =>
        /\ reader.pc = "returned"
        /\ Yielded = Stream(reader.minheight,
                            Min(reader.maxheight, writer.stored - 1))

\* chunk k is whole on disk and within the heights asked for
Stored(k) ==
    /\ reader.pc /= "idle"
    /\ k < writer.stored
    /\ reader.minheight <= k
    /\ k <= reader.maxheight

\* chunk k has been yielded, at height k
Served(k) ==
    \E i \in DOMAIN served :
        served[i].rawblock = chunk(k) /\ served[i].rawheight = k

\* every whole chunk in the files, of a height asked for, has been yielded
AllServed == \A k \in 0..(2 + MaxWrites) : Stored(k) => Served(k)

\* C19: with follow mode on, nextchunk does not end at the end of data, and
\* every whole chunk that is or comes to be in the files, in the file being
\* read or in a successor file, is eventually yielded, none skipped and
\* none yielded twice. (A chunk once stored stays stored and one once
\* yielded stays yielded, so "each is eventually yielded" is "again and
\* again all are".)
C19_FollowYieldsEveryChunk ==
    /\ [](reader.pc /= "idle" /\ reader.wait =>
            /\ reader.pc = "returned" => reader.height > reader.maxheight
            /\ reader.pc /= "raised"
            /\ \A i, j \in DOMAIN served :
                   served[i].rawheight = served[j].rawheight => i = j)
    /\ []<>AllServed

\* the step reads a prefix of eight zero bytes
ZeroPrefixRead ==
    /\ reader.pc = "prefix"
    /\ reader' /= reader
    /\ reader'.prefix = [i \in 1..PREFIX_LENGTH |-> 0]

\* C20: an all-zero prefix is handled as an empty read is: from the same
\* state both lead to the same next state, and when a subsequent file
\* exists, listed or found by nextfile, the reader advances to it, with and
\* without follow mode.
C20_ZeroPrefixAsEmptyRead ==
    [][ZeroPrefixRead =>
          LET r == [reader' EXCEPT !.pc = "prefix", !.done = FALSE,
                                   !.error = ""]
          IN  \E generator_stop \in BOOLEAN :
                LET empty == EmptyRead(r, generator_stop)
                IN  /\ reader'.pc = empty.pc
                    /\ reader'.fileindex = empty.fileindex
                    /\ reader'.blockfiles = empty.blockfiles
                    /\ reader'.done = empty.done]_vars

----------------------------------------------------------------------------
\* Claims about script_compile

\* C24: the listing parse makes of what script_compile compiled from opcode
\* names and non-empty data is the source again, and parse returns as many
\* opcode positions as the script has bytes.
C24_CompileParseRoundTrip ==
    (call.fn = "script_compile" /\ call.stage = "parsed") =>
        /\ call.exc = ""
        /\ call.readable = call.words
        /\ Len(call.parsed) = Len(call.compiled)

\* what does hold: the round trip of sources whose data is shorter than
\* 65536 bytes, or comes last
C24_ShortDataRoundTrip ==
    (call.fn = "script_compile" /\ call.stage = "parsed"
        /\ \A i \in 1..(Len(call.words) - 1) :
               Len(call.words[i].data) <= 65535) =>
        /\ call.exc = ""
        /\ call.readable = call.words
        /\ Len(call.parsed) = Len(call.compiled)

----------------------------------------------------------------------------
\* Claims about nextfile

Basename(filename) ==
    SubSeq(filename, AfterLastSlash(filename) + 1, Len(filename))

HasDigit(text) == \E i \in DOMAIN text : IsDigit(text[i])

\* the name with its rightmost maximal run of digits counted up by one, at
\* the width of the run or wider if the number needs it
Successor(filename) ==
    LET final == CHOOSE i \in DOMAIN filename :
                     /\ IsDigit(filename[i])
                     /\ \A j \in (i + 1)..Len(filename) : ~IsDigit(filename[j])
        first == CHOOSE i \in 1..final :
                     /\ \A j \in i..final : IsDigit(filename[j])
                     /\ i > 1 => ~IsDigit(filename[i - 1])
        run   == SubSeq(filename, first, final)
    IN  SubSeq(filename, 1, first - 1) \o format(int(run) + 1, Len(run))
            \o SubSeq(filename, final + 1, Len(filename))

\* C25: for a name whose basename holds a digit nextfile returns the name
\* with its rightmost run of digits counted up by one at the same width and
\* everything else as it was; it raises ValueError exactly when the
\* basename holds no digit.
C25_NextFileIncrements ==
    (call.fn = "nextfile" /\ call.stage = "done") =>
        IF HasDigit(Basename(call.filename))
        THEN call.exc = "" /\ call.name = Successor(call.filename)
        ELSE call.exc = ValueError

\* what does hold: a basename with exactly one run of digits
C25_SingleRun ==
    (call.fn = "nextfile" /\ call.stage = "done"
        /\ match(Basename(call.filename)).matched
        /\ path_split(call.filename).directory
               = SubSeq(call.filename, 1, AfterLastSlash(call.filename) - 1)) =>
        call.exc = "" /\ call.name = Successor(call.filename)

----------------------------------------------------------------------------
\* Claims about the block index: child lists, forks, orphans and repeats

\* the places (node, position) of the child lists that hold h
Listings(h) ==
    {place \in UNION {{<<k, i>> : i \in DOMAIN BLOCKCHAIN[k].children} :
                          k \in DOMAIN BLOCKCHAIN} :
        BLOCKCHAIN[place[1]].children[place[2]] = h}

\* C26: every block of the index whose previous-hash is a key of the index
\* is listed as a child exactly once, by the node stored under its
\* previous-hash and by no other, also after repeated chunks.
C26_ChildListedOnce ==
    \A h \in Arrived :
        BLOCKCHAIN[h].previous \in DOMAIN BLOCKCHAIN =>
            \E i \in DOMAIN BLOCKCHAIN[BLOCKCHAIN[h].previous].children :
                Listings(h) = {<<BLOCKCHAIN[h].previous, i>>}

\* no node has two children on the main chain
AtMostOneMainChild ==
    \A k \in DOMAIN BLOCKCHAIN :
        Cardinality(Range(BLOCKCHAIN[k].children) \cap Range(BLOCKS)) <= 1

\* BLOCKS is still the beginning of the main chain after the step
MainChainKept ==
    /\ Len(BLOCKS') >= Len(BLOCKS)
    /\ SubSeq(BLOCKS', 1, Len(BLOCKS)) = BLOCKS

\* C27: no node has two children on the main chain, and a block that links
\* to a parent which already has a child is put among the chains and leaves
\* the main chain computed before it as it was.
C27_SecondChildIsFork ==
    /\ []AtMostOneMainChild
    /\ [][\A h \in MainLine \cup ForkLine :
             LinksCompetitor(h) =>
                 h \in Range(CHAINS') /\ MainChainKept]_vars

Orphans == Range(CHAINS) \ {NULLBLOCK}

Parentless == {h \in Arrived : BLOCKCHAIN[h].previous \notin DOMAIN BLOCKCHAIN}

\* the orphans that wait for h leave the chains and become children of h
AdoptsOrphans(h) ==
    \A k \in Orphans :
        BLOCKCHAIN[k].previous = h =>
            /\ k \notin Range(CHAINS')
            /\ k \in Range(BLOCKCHAIN'[h].children)

\* C28: after every chunk the chains other than the null block are exactly
\* the blocks whose previous-hash is not a key of the index, and the step
\* that brings a block links every orphan waiting for it and removes it
\* from the chains, whether or not the block is an orphan itself.
C28_OrphansAreParentless ==
    /\ [](Orphans = Parentless)
    /\ [][\A h \in MainLine \cup ForkLine :
             NextChunk(h) => AdoptsOrphans(h)]_vars

C28_Witness ==
    /\ ~inorder
    /\ Arrived = MainLine
    /\ Orphans = {}
    /\ BLOCKS = [i \in 1..MainLen |-> i]
    /\ \A h \in MainLine : BLOCKCHAIN[Previous(h)].children = <<h>>

\* the walk from the null block along the front children, as listchain
\* would do it now
Walk == listchain(BLOCKCHAIN[NULLBLOCK], BLOCKCHAIN)

\* C29: recomputing the main chain never raises the broken-chain error:
\* each block the walk reaches declares the node it was reached from as
\* its previous-hash, and no block is reached twice.
C29_WalkNeverBreaks ==
    /\ pc /= "raised"
    /\ Walk.ok
    /\ \A i \in DOMAIN Walk.blocks :
           BLOCKCHAIN[Walk.blocks[i]].previous =
               IF i = 1 THEN NULLBLOCK ELSE Walk.blocks[i - 1]
    /\ \A i, j \in DOMAIN Walk.blocks :
           i /= j => Walk.blocks[i] /= Walk.blocks[j]

C29_Witness ==
    /\ dups > 0
    /\ Len(Walk.blocks) >= 3
    /\ Walk.blocks = BLOCKS
    /\ \E k \in DOMAIN BLOCKCHAIN : Len(BLOCKCHAIN[k].children) = 2
    /\ Len(CHAINS) > 1

\* C30: a chunk whose block is already on the main chain leaves the main
\* chain as it was.
C30_RedeliveryKeepsMainChain ==
    [][\A h \in MainLine \cup ForkLine :
          (NextChunk(h) /\ h \in Range(BLOCKS)) => BLOCKS' = BLOCKS]_vars

----------------------------------------------------------------------------
\* script.py: testall, the driver that validates the scripts of every
\* confirmed transaction, and silent_search, which it calls for the
\* transaction an input spends.  Both read the same block files through
\* next_transaction, and every nextblock generator works on the same
\* globals BLOCKCHAIN, CHAINS and BLOCKS.

\* b'\0' * 32, the previous-hash of a coinbase input, as a transaction id
COINBASE == 0

\* sys.maxsize, the default of maxblock: more than any file holds
maxsize == 1000000

\* transaction ids: the coinbase transaction of block h has id h
SpenderHash == MainLen + ForkLen + 1
Absent == MainLen + ForkLen + 2

\* an input and an output as parse_transaction returns them
TxIn(previous_hash, index, scriptbinary) ==
    <<previous_hash, <<index, 0, 0, 0>>, <<Len(scriptbinary)>>, scriptbinary,
      <<255, 255, 255, 255>>>>

TxOut(scriptbinary) ==
    <<<<80, 0, 0, 0, 0, 0, 0, 0>>, <<Len(scriptbinary)>>, scriptbinary>>

Tx(inputs, outputs) ==
    <<<<1, 0, 0, 0>>, <<Len(inputs)>>, inputs, <<Len(outputs)>>, outputs,
      <<0, 0, 0, 0>>>>

\* the transaction with a given id: a coinbase transaction pushes a byte
\* and pays to the script OP_NOP; the spender unlocks with OP_1
TxOf(txhash) ==
    IF txhash = SpenderHash
    THEN Tx([i \in DOMAIN files.spender.inputs |->
                TxIn(files.spender.inputs[i], 0,
                     IF files.spender.inputs[i] = COINBASE THEN <<1, 7>>
                     ELSE <<81>>)],
            <<TxOut(<<97>>)>>)
    ELSE Tx(<<TxIn(COINBASE, 0, <<1, 7>>)>>, <<TxOut(<<97>>)>>)

\* next_transaction, for one block: the (txhash, transaction) pairs of the
\* transactions get_transactions reads from the block's place in the files
BlockTransactions(h) ==
    <<h>> \o (IF h = files.spender.block THEN <<SpenderHash>> ELSE <<>>)

\* run: the while loop, and the except clause that appends None
RECURSIVE run_loop(_, _, _, _)
run_loop(f, whole, positions, index) ==
    IF f.script = <<>> \/ f.exc /= "" THEN f
    ELSE run_loop(Dispatch([f EXCEPT !.script = Tail(@)], Head(f.script),
                           whole, positions, index, TRUE),
                  whole, positions, index)

run(scriptbinary, transaction, index, positions, items) ==
    LET f == run_loop([stack |-> items, script |-> scriptbinary,
                       ifstack |-> <<>>, mark |-> <<0>>,
                       txnew |-> transaction, exc |-> "", sig |-> NoSig,
                       altstack |-> <<>>],
                      scriptbinary, positions, index)
    IN  IF f.exc \in Caught
        THEN [stack |-> Append(f.stack, NoneItem), exc |-> ""]
        ELSE [stack |-> f.stack, exc |-> f.exc]

\* the keys of BLOCKCHAIN in the order of the dict: the null block, then
\* the blocks in the order in which the files hold them first
RECURSIVE FirstOccurrences(_, _)
FirstOccurrences(s, seen) ==
    IF s = <<>> THEN <<>>
    ELSE IF Head(s) \in seen THEN FirstOccurrences(Tail(s), seen)
    ELSE <<Head(s)>> \o FirstOccurrences(Tail(s), seen \cup {Head(s)})

KeyOrder ==
    <<NULLBLOCK>> \o SelectSeq(FirstOccurrences(files.chunks, {}),
                               LAMBDA h : h \in DOMAIN BLOCKCHAIN)

\* CHAINS.update(BLOCKCHAIN): a key CHAINS has keeps its place, the others
\* follow in the order of BLOCKCHAIN
update(chainkeys, keys) ==
    chainkeys \o SelectSeq(keys, LAMBDA k : k \notin Range(chainkeys))

\* ---- the block files that are explored

\* the blocks 1..at and the branch that goes on from there, in order
Trunk(at) ==
    [i \in 1..(at + ForkLen) |-> IF i <= at THEN i ELSE MainLen + i - at]

\* the main line, then the competing branch
BothLines == [i \in 1..(MainLen + ForkLen) |-> i]

\* chunk i + 1 stored before chunk i
Swapped(s, i) ==
    [k \in DOMAIN s |-> IF k = i THEN s[i + 1]
                        ELSE IF k = i + 1 THEN s[i] ELSE s[k]]

\* chunk i stored once more after chunk j
Repeated(s, i, j) == SubSeq(s, 1, j) \o <<s[i]>> \o SubSeq(s, j + 1, Len(s))

Streams(at) ==
    {Trunk(at), BothLines}
        \cup {Swapped(Trunk(at), i) : i \in 1..(at + ForkLen - 1)}
        \cup UNION {{Repeated(Trunk(at), i, i),
                      Repeated(Trunk(at), i, at + ForkLen)} :
                         i \in 1..(at + ForkLen)}

\* the one transaction that spends: the block that holds it and the
\* transactions its inputs name
Spenders(chunks) ==
    {[block |-> chunks[1], inputs |-> <<a>>] :
         a \in Range(chunks) \cup {Absent}}
        \cup {[block |-> chunks[2], inputs |-> <<chunks[1], chunks[1]>>],
              [block |-> chunks[2], inputs |-> <<COINBASE, chunks[1]>>],
              [block |-> MainLen + 2, inputs |-> <<MainLen + 1>>]}

\* no search is running
NoSearch == [pc |-> "idle"]

\* testall(blockfiles, 0, maxblock) at its first statement
InitTestall ==
    /\ InitNextblock
    /\ ScriptIdle
    /\ call = [fn |-> "none"]
    /\ ReaderIdle
    /\ forkAt \in 0..MaxForkAt
    /\ dupBudget = 0
    /\ orphanBudget = 0
    /\ \E chunks \in Streams(forkAt) :
         /\ universe = Range(chunks)
         /\ \E spender \in Spenders(chunks) :
              files = [chunks |-> chunks, spender |-> spender]
         /\ \E maxblock \in {Len(chunks) - 1, maxsize} :
              testall = [pc |-> "next", maxblock |-> maxblock, height |-> 0,
                         queue |-> <<>>, tx_hash |-> COINBASE, txindex |-> 0,
                         stack |-> <<>>, cache |-> <<>>, count |-> 0,
                         spendcount |-> 0, results |-> {}, error |-> ""]
    /\ search = NoSearch

\* ---- the steps of testall

\* what the steps of testall and of the search leave alone
DriverFrame ==
    /\ UNCHANGED <<forkAt, universe, dupBudget, orphanBudget, dups, inorder>>
    /\ UNCHANGED <<scriptvars, call, readervars, files>>

\* cache[tx_hash] = transaction: a key the cache has keeps its place
CachePut(cache, txhash) ==
    IF txhash \in Range(cache) THEN cache ELSE Append(cache, txhash)

\* for height, tx_hash, transaction in transactions: the block the stream
\* is at has another transaction
NextTransaction ==
    /\ testall.pc = "next"
    /\ testall.queue /= <<>>
    /\ testall' = [testall EXCEPT
           !.tx_hash = Head(testall.queue),
           !.queue = Tail(testall.queue),
           !.cache = CachePut(@, Head(testall.queue)),
           !.txindex = 0,
           !.pc = IF TxOf(Head(testall.queue))[3] = <<>> THEN "next"
                  ELSE "input"]
    /\ UNCHANGED <<chainvars, search>>
    /\ DriverFrame

\* the stream asks nextblock for a block, and nextblock asks nextchunk for
\* a chunk: heights 0..maxblock have been read and nextchunk returns, and
\* so do nextblock, next_transaction and the for loop; the final tally
OuterReturn ==
    /\ testall.pc = "next"
    /\ testall.queue = <<>>
    /\ pc = "fetch"
    /\ testall.height > testall.maxblock
    /\ testall' = [testall EXCEPT !.pc = "returned"]
    /\ UNCHANGED <<chainvars, search>>
    /\ DriverFrame

\* ... the files hold another chunk: one turn of the for loop of nextblock
OuterChunk ==
    /\ testall.pc = "next"
    /\ testall.queue = <<>>
    /\ pc = "fetch"
    /\ testall.height <= testall.maxblock
    /\ testall.height < Len(files.chunks)
    /\ Deliver(files.chunks[testall.height + 1])
    /\ testall' = [testall EXCEPT
           !.height = @ + 1,
           !.queue = IF pc' = "yielded"
                     THEN BlockTransactions(yielded'[Len(yielded')])
                     ELSE <<>>,
           !.pc = IF pc' = "raised" THEN "raised" ELSE @,
           !.error = IF pc' = "raised" THEN ValueError ELSE @]
    /\ UNCHANGED search
    /\ DriverFrame

\* ... the files end: wait is true, nextchunk sleeps
OuterSleep ==
    /\ testall.pc = "next"
    /\ testall.queue = <<>>
    /\ pc = "fetch"
    /\ testall.height <= testall.maxblock
    /\ testall.height >= Len(files.chunks)
    /\ testall' = [testall EXCEPT !.pc = "sleeping"]
    /\ UNCHANGED <<chainvars, search>>
    /\ DriverFrame

\* time.sleep(10) is over; continue
OuterWake ==
    /\ testall.pc = "sleeping"
    /\ testall' = [testall EXCEPT !.pc = "next"]
    /\ UNCHANGED <<chainvars, search>>
    /\ DriverFrame

\* the stream asks nextblock for a block and nextblock is in its while loop
OuterResume ==
    /\ testall.pc = "next"
    /\ testall.queue = <<>>
    /\ pc = "yielded"
    /\ IF available >= 0 /\ last < available
       THEN /\ last' = last + 1
            /\ IF last' + 1 > Len(BLOCKS)
               THEN /\ pc' = "raised"
                    /\ testall' = [testall EXCEPT !.pc = "raised",
                                                  !.error = IndexError]
                    /\ UNCHANGED yielded
               ELSE /\ yielded' = Append(yielded, BLOCKS[last' + 1])
                    /\ testall' = [testall EXCEPT
                           !.queue = BlockTransactions(BLOCKS[last' + 1])]
                    /\ UNCHANGED pc
       ELSE /\ pc' = "fetch"
            /\ UNCHANGED <<last, yielded, testall>>
    /\ UNCHANGED <<BLOCKCHAIN, CHAINS, BLOCKS, available, search>>
    /\ DriverFrame

\* bool(item)
Passed(items) == items /= <<>> /\ Truth(items[Len(items)])

\* for txindex in range(len(transaction[2])): the unlocking script is run
\* on an empty stack; a coinbase input is done, for any other input
\* silent_search looks for the transaction it spends
RunInput ==
    /\ testall.pc = "input"
    /\ LET transaction == TxOf(testall.tx_hash)
           txin == transaction[3][testall.txindex + 1]
           txin_script == txin[4]
           ran == run(txin_script, transaction, testall.txindex,
                      parse(txin_script), <<>>)
           result == Passed(ran.stack)
           previous_hash == txin[1]
           counted == [testall EXCEPT
                          !.stack = ran.stack,
                          !.count = @ + 1,
                          !.results = @ \cup {<<testall.tx_hash,
                                                testall.txindex,
                                                "input", result>>}]
       IN  IF ran.exc /= ""
           THEN /\ testall' = [testall EXCEPT !.pc = "raised",
                                              !.error = ran.exc]
                /\ UNCHANGED search
           ELSE IF previous_hash = COINBASE
           THEN /\ testall' = [counted EXCEPT
                       !.txindex = @ + 1,
                       !.pc = IF testall.txindex + 1 < Len(transaction[3])
                              THEN "input" ELSE "next"]
                /\ UNCHANGED search
           ELSE IF previous_hash \in Range(testall.cache)
           THEN /\ testall' = [counted EXCEPT !.pc = "spend"]
                /\ UNCHANGED search
           ELSE /\ testall' = [counted EXCEPT !.pc = "search"]
                /\ search' = [pc |-> "start", search_hash |-> previous_hash,
                              height |-> 0, last |-> -1, available |-> -1,
                              queue |-> <<>>]
    /\ UNCHANGED chainvars
    /\ DriverFrame

\* silent_search has returned tx: the locking script of the output is run
\* on the stack the unlocking script left; break
Spend ==
    /\ testall.pc = "spend"
    /\ LET transaction == TxOf(testall.tx_hash)
           txin == transaction[3][testall.txindex + 1]
           txout_index == AsIndex(unpack_le(txin[2]))
           tx == TxOf(txin[1])
       IN  IF txout_index + 1 > Len(tx[5])
           THEN testall' = [testall EXCEPT !.pc = "raised",
                                           !.error = IndexError]
           ELSE LET txout_script == tx[5][txout_index + 1][3]
                    ran == run(txout_script, transaction, testall.txindex,
                               parse(txout_script), testall.stack)
                IN  IF ran.exc /= "" \/ ran.stack = <<>>
                    THEN testall' = [testall EXCEPT
                             !.pc = "raised",
                             !.error = IF ran.exc /= "" THEN ran.exc
                                       ELSE IndexError]
                    ELSE testall' = [testall EXCEPT
                             !.stack = Pop(ran.stack),
                             !.count = @ + 1,
                             !.spendcount = @ + 1,
                             !.results = @ \cup
                                 {<<testall.tx_hash, testall.txindex,
                                    "output", Truth(Top(ran.stack))>>},
                             !.pc = "next"]
    /\ UNCHANGED <<chainvars, search>>
    /\ DriverFrame

\* ---- the steps of silent_search on a cache miss

\* tx_search = next_transaction(blockfiles), up to the for loop of the new
\* nextblock generator: a new null block, and every block that is indexed
\* is put among the chains
SearchInit ==
    /\ search.pc = "start"
    /\ BLOCKCHAIN' = Put(BLOCKCHAIN, NULLBLOCK, NullNode)
    /\ CHAINS' = update(CHAINS, KeyOrder)
    /\ search' = [search EXCEPT !.pc = "fetch"]
    /\ UNCHANGED <<BLOCKS, last, available, pc, yielded, testall>>
    /\ DriverFrame

\* one turn of the for loop of the second nextblock generator, up to and
\* including its first yield, if any
SearchChunk ==
    /\ search.pc = "fetch"
    /\ search.queue = <<>>
    /\ search.height < Len(files.chunks)
    /\ \E r \in {Ingest(files.chunks[search.height + 1])} :
       LET availablenow == Available(r.chain.blocks)
           yields == availablenow >= 0 /\ search.last < availablenow
       IN  /\ BLOCKCHAIN' = r.blockchain
           /\ CHAINS' = r.chains
           /\ IF ~r.changed
              THEN /\ search' = [search EXCEPT !.height = @ + 1]
                   /\ UNCHANGED <<BLOCKS, testall>>
              ELSE IF ~r.chain.ok
              THEN /\ search' = [search EXCEPT !.pc = "raised"]
                   /\ testall' = [testall EXCEPT !.pc = "raised",
                                                 !.error = ValueError]
                   /\ UNCHANGED BLOCKS
              ELSE /\ BLOCKS' = r.chain.blocks
                   /\ search' = [search EXCEPT
                          !.height = @ + 1,
                          !.available = availablenow,
                          !.last = IF yields THEN @ + 1 ELSE @,
                          !.queue = IF yields
                                    THEN BlockTransactions(
                                             BLOCKS'[search.last + 2])
                                    ELSE <<>>,
                          !.pc = IF yields THEN "yielded" ELSE @]
                   /\ UNCHANGED testall
    /\ UNCHANGED <<last, available, pc, yielded>>
    /\ DriverFrame

\* the second generator is in its while loop and is asked for a block
SearchResume ==
    /\ search.pc = "yielded"
    /\ search.queue = <<>>
    /\ IF search.available >= 0 /\ search.last < search.available
       THEN IF search.last + 2 > Len(BLOCKS)
            THEN /\ search' = [search EXCEPT !.pc = "raised"]
                 /\ testall' = [testall EXCEPT !.pc = "raised",
                                               !.error = IndexError]
            ELSE /\ search' = [search EXCEPT
                        !.last = @ + 1,
                        !.queue = BlockTransactions(BLOCKS[search.last + 2])]
                 /\ UNCHANGED testall
       ELSE /\ search' = [search EXCEPT !.pc = "fetch"]
            /\ UNCHANGED testall
    /\ UNCHANGED chainvars
    /\ DriverFrame

\* cache[search_hash] = tx; if len(cache) > maxlength:
\* cache.pop(list(cache.keys())[0])
CacheStore(cache, search_hash, maxlength) ==
    LET put == CachePut(cache, search_hash)
    IN  IF Len(put) > maxlength THEN Tail(put) ELSE put

\* for ignored, found_hash, tx in tx_search: the transaction is the one
\* looked for, it is put in the cache and returned, or it is not; testall
\* passes no maxlength, so it is sys.maxsize
SearchCompare ==
    /\ search.pc \in {"fetch", "yielded"}
    /\ search.queue /= <<>>
    /\ IF Head(search.queue) = search.search_hash
       THEN /\ testall' = [testall EXCEPT
                   !.cache = CacheStore(@, search.search_hash, maxsize),
                   !.pc = "spend"]
            /\ search' = NoSearch
       ELSE /\ search' = [search EXCEPT !.queue = Tail(@)]
            /\ UNCHANGED testall
    /\ UNCHANGED chainvars
    /\ DriverFrame

\* the files end while the search goes on: its nextchunk sleeps
SearchSleep ==
    /\ search.pc = "fetch"
    /\ search.queue = <<>>
    /\ search.height >= Len(files.chunks)
    /\ search' = [search EXCEPT !.pc = "sleeping"]
    /\ UNCHANGED <<chainvars, testall>>
    /\ DriverFrame

SearchWake ==
    /\ search.pc = "sleeping"
    /\ search' = [search EXCEPT !.pc = "fetch"]
    /\ UNCHANGED <<chainvars, testall>>
    /\ DriverFrame

NextTestall ==
    \/ NextTransaction
    \/ OuterReturn
    \/ OuterChunk
    \/ OuterSleep
    \/ OuterWake
    \/ OuterResume
    \/ RunInput
    \/ Spend
    \/ SearchInit
    \/ SearchChunk
    \/ SearchResume
    \/ SearchCompare
    \/ SearchSleep
    \/ SearchWake

SpecTestall == InitTestall /\ [][NextTestall]_vars

\* testall on files that hold one line of blocks, in order or with its
\* last two chunks swapped
InitTestallRuns ==
    /\ InitTestall
    /\ forkAt = MaxForkAt
    /\ files.chunks \in {Trunk(forkAt),
                         Swapped(Trunk(forkAt), forkAt + ForkLen - 1)}

\* testall runs on: no step that can be taken is put off for ever
SpecTestallRuns ==
    InitTestallRuns /\ [][NextTestall]_vars /\ WF_vars(NextTestall)

\* ---- the cache of previous transactions on its own

\* the transactions next_transaction(blockfiles) yields, by their ids
CacheStream == [i \in 1..(MaxCache + 1) |-> i]

\* the place of the first transaction of the stream with the id looked for
FoundAt(search_hash) ==
    CHOOSE i \in DOMAIN CacheStream :
        /\ CacheStream[i] = search_hash
        /\ \A j \in 1..(i - 1) : CacheStream[j] /= search_hash

\* silent_search(blockfiles, search_hash, cache, maxlength) for a
\* transaction the cache or the files hold: what it returns, what it
\* leaves in the cache, and how many transactions of the stream it compared
silent_search(search_hash, cache, maxlength) ==
    IF search_hash \in Range(cache)
    THEN [tx |-> search_hash, cache |-> cache, compared |-> 0]
    ELSE [tx |-> search_hash,
          cache |-> CacheStore(cache, search_hash, maxlength),
          compared |-> FoundAt(search_hash)]

\* cache = OrderedDict(), and the bound silent_search will be given: one
\* that the transactions at hand can exceed, or the default
InitCache ==
    /\ InitNextblock
    /\ ScriptIdle
    /\ call = [fn |-> "none"]
    /\ ReaderIdle
    /\ forkAt = 0
    /\ universe = {}
    /\ dupBudget = 0
    /\ orphanBudget = 0
    /\ files = [chunks |-> <<>>]
    /\ search = NoSearch
    /\ \E maxlength \in 1..MaxCache \cup {maxsize} :
         testall = [pc |-> "cache", cache |-> <<>>, maxlength |-> maxlength,
                    tx_hash |-> COINBASE, found |-> COINBASE, compared |-> 0]

\* testall: cache[tx_hash] = transaction, for the next transaction of its
\* stream
CacheInsert ==
    /\ testall.pc \in {"cache", "stored", "found"}
    /\ \E txhash \in Range(CacheStream) :
         testall' = [testall EXCEPT !.pc = "stored",
                                    !.tx_hash = txhash,
                                    !.cache = CachePut(@, txhash)]
    /\ UNCHANGED <<chainvars, search>>
    /\ DriverFrame

\* tx = silent_search(blockfiles, previous_hash, cache, maxlength)
CacheSearch ==
    /\ testall.pc \in {"cache", "stored", "found"}
    /\ \E previous_hash \in Range(CacheStream) :
         \E r \in {silent_search(previous_hash, testall.cache,
                                 testall.maxlength)} :
             testall' = [testall EXCEPT !.pc = "found",
                                        !.tx_hash = previous_hash,
                                        !.found = r.tx,
                                        !.compared = r.compared,
                                        !.cache = r.cache]
    /\ UNCHANGED <<chainvars, search>>
    /\ DriverFrame

NextCache ==
    \/ CacheInsert
    \/ CacheSearch

SpecCache == InitCache /\ [][NextCache]_vars

----------------------------------------------------------------------------
\* Claims about testall

\* the transactions testall has taken from its stream
Taken ==
    UNION {Range(BlockTransactions(yielded[i])) : i \in DOMAIN yielded}
        \ Range(testall.queue)

\* the transactions testall has left behind
Finished ==
    {txhash \in Taken : testall.pc = "next" \/ txhash /= testall.tx_hash}

\* a script of input txindex of the transaction was run to a verdict
Validated(txhash, index, which) ==
    \E result \in BOOLEAN :
        <<txhash, index, which, result>> \in testall.results

\* C21: every input of every transaction testall has gone through was
\* validated: its unlocking script was run, and unless it is a coinbase
\* input the locking script of the output it spends was run; no input of a
\* transaction with several inputs is skipped.
C21_EveryInputValidated ==
    \A txhash \in Finished :
        \A i \in DOMAIN TxOf(txhash)[3] :
            /\ Validated(txhash, i - 1, "input")
            /\ TxOf(txhash)[3][i][1] /= COINBASE
                   => Validated(txhash, i - 1, "output")

\* a transaction with one input goes through validated
C21_SingleInputValidated ==
    \A txhash \in Finished :
        Len(TxOf(txhash)[3]) = 1 =>
            /\ Validated(txhash, 0, "input")
            /\ TxOf(txhash)[3][1][1] /= COINBASE
                   => Validated(txhash, 0, "output")

\* the blocks nextblock yields when nothing else touches its globals
RECURSIVE nextblock_alone(_, _, _, _, _)
nextblock_alone(chunks, blockchain, chainkeys, lastnow, out) ==
    IF chunks = <<>> THEN out
    ELSE LET r == ingest(blockchain, chainkeys, Head(chunks))
             availablenow == Available(r.chain.blocks)
             confirmed == IF r.changed /\ r.chain.ok
                             /\ availablenow > lastnow
                          THEN SubSeq(r.chain.blocks, lastnow + 2,
                                      availablenow + 1)
                          ELSE <<>>
         IN  IF r.changed /\ ~r.chain.ok THEN out
             ELSE nextblock_alone(Tail(chunks), r.blockchain, r.chains,
                                  lastnow + Len(confirmed),
                                  out \o confirmed)

Undisturbed ==
    nextblock_alone(files.chunks, [h \in {NULLBLOCK} |-> NullNode],
                    <<NULLBLOCK>>, -1, <<>>)

IsPrefix(s, t) == Len(s) <= Len(t) /\ s = SubSeq(t, 1, Len(s))

\* C22: a search that silent_search starts on a cache miss leaves the
\* stream of testall as it was: the stream yields the blocks it would have
\* yielded had there been no search, in the same order, and all of them
\* once it has read every chunk.
C22_SearchLeavesStreamAlone ==
    /\ IsPrefix(yielded, Undisturbed)
    /\ pc /= "raised"
    /\ (testall.pc \in {"returned", "sleeping"} /\ search = NoSearch)
           => yielded = Undisturbed

\* C23: over block files that do not change testall terminates: it goes
\* through the confirmed transactions, reports the final tally and returns.
C23_TestallReturns == <>(testall.pc = "returned")

\* with a maxblock the files reach and no search, testall returns
C23_BoundedReturns ==
    <>(\/ testall.pc = "returned"
       \/ testall.maxblock = maxsize
       \/ search /= NoSearch)

----------------------------------------------------------------------------
\* Claims about single opcodes

\* run is about to take opcode op off the script
Runs(op) == outcome = "running" /\ script /= <<>> /\ Head(script) = op

\* C31: ELSE changes only the innermost nesting flag: it leaves the data
\* stack, the nesting depth and the outer flags as they are, in an active
\* and in an inactive branch alike; the first ELSE makes an active branch
\* inactive and an inactive one active, a further ELSE leaves it inactive.
C31_ElseChangesOnlyInnermostFlag ==
    [][Runs(103) =>
          /\ stack' = stack
          /\ Len(ifstack') = Len(ifstack)
          /\ ifstack /= <<>> =>
                /\ Pop(ifstack') = Pop(ifstack)
                /\ Top(ifstack) = "True" => Top(ifstack') = "None"
                /\ Top(ifstack) = "False" => Top(ifstack') = "True"
                /\ Top(ifstack) = "None" => Top(ifstack') = "None"]_vars

\* what the code does: an active ELSE runs op_else, an inactive one runs
\* op_notif, which takes an item off the data stack and opens a branch
C31_InactiveElseIsNotif ==
    [][Runs(103) /\ Inactive(ifstack) /\ stack /= <<>> =>
          /\ stack' = Pop(stack)
          /\ ifstack' = Append(ifstack, IF Truth(Top(stack)) THEN "False"
                                        ELSE "True")]_vars

C31_Witness ==
    /\ input.scriptbinary = <<0, 99, 103>>
    /\ input.stack = <<BytesItem(<<7>>)>>
    /\ outcome = "returned"
    /\ stack = <<>>
    /\ ifstack = <<"False", "False">>

\* C32: ENDIF pops the innermost nesting flag, of an active and of an
\* inactive branch alike; so in <cond> IF|NOTIF ENDIF OP_1 the nesting
\* stack is empty again when OP_1 is reached, and OP_1 pushes 1.
C32_EndifPopsInnermostFlag ==
    [][/\ Runs(104) /\ ifstack /= <<>> => ifstack' = Pop(ifstack)
       /\ (/\ input.kind = "branch"
           /\ input.cond /= <<>>
           /\ input.A = <<<<104>>, <<81>>>>
           /\ Runs(81)) =>
              /\ ifstack = <<>>
              /\ stack' = Append(stack, BytesItem(<<1>>))]_vars

\* what the code does: an inactive ENDIF runs op_nop
C32_InactiveEndifIsNop ==
    [][Runs(104) /\ Inactive(ifstack) =>
          ifstack' = ifstack /\ stack' = stack]_vars

C32_Witness ==
    /\ input.scriptbinary = <<0, 99, 104, 81>>
    /\ input.stack = <<>>
    /\ outcome = "returned"
    /\ stack = <<>>
    /\ ifstack = <<"False">>

\* the opcodes that push data: 0x01 to 0x4b, PUSHDATA1, PUSHDATA2, PUSHDATA4
PushOpcodes == 1..78

\* C33: in an inactive branch a push opcode takes as many bytes off the
\* script as the same opcode does in an active branch (and fails where that
\* fails), and leaves data stack, alt-stack and nesting stack unchanged.
C33_SkippedPushAdvancesAlike ==
    [][\A op \in PushOpcodes :
          Runs(op) /\ Inactive(ifstack) =>
              \E active \in {Call(SCRIPT_OPS(op)[2],
                                  [Frame EXCEPT !.script = Tail(@)], op,
                                  reference, parsed, txindex, FALSE)} :
                  /\ script' = active.script
                  /\ error' = active.exc
                  /\ stack' = stack
                  /\ altstack' = altstack
                  /\ ifstack' = ifstack]_vars

\* a PUSHDATA2 of one byte has been skipped
C33_Witness ==
    /\ input.scriptbinary = <<0, 99, 77, 1, 0, 7, 81>>
    /\ input.stack = <<BytesItem(<<7>>)>>
    /\ opcode = 77
    /\ script = <<81>>
    /\ stack = <<BytesItem(<<7>>)>>
    /\ ifstack = <<"False">>
    /\ error = ""

\* C34: OP_CODESEPARATOR appends one mark, the offset in the original
\* script at which this OP_CODESEPARATOR stands, in an active and in an
\* inactive branch alike, and changes neither the data stack nor the
\* nesting stack.
C34_SeparatorMarksItsOffset ==
    [][Runs(OP_CODESEPARATOR) =>
          /\ mark' = Append(mark, Len(reference) - Len(script))
          /\ reference[Top(mark') + 1] = OP_CODESEPARATOR
          /\ SubSeq(reference, Top(mark') + 1, Len(reference)) = script
          /\ stack' = stack
          /\ ifstack' = ifstack]_vars

\* two separators at offsets 2 and 3 have been passed in an inactive branch
C34_Witness ==
    /\ input.scriptbinary = <<0, 99, OP_CODESEPARATOR, OP_CODESEPARATOR>>
    /\ outcome = "returned"
    /\ ifstack = <<"False">>
    /\ mark = <<0, 2, 3>>

\* the bytes a push opcode takes up before its data: the opcode and the
\* 0, 1, 2 or 4 bytes of the count
Header(op) == IF op < 76 THEN 1 ELSE IF op = 76 THEN 2
              ELSE IF op = 77 THEN 3 ELSE 5

\* the little-endian count that follows the opcode at the front of s
LittleEndian(op, s) ==
    IF op < 76 THEN op
    ELSE unpack(SubSeq(s, 2, Header(op)))

\* C35: a push opcode whose count bytes and data are all in the script
\* pushes exactly the data: the N bytes after the opcode for 0x01-0x4b, and
\* for PUSHDATA1, PUSHDATA2, PUSHDATA4 as many bytes as the little-endian
\* count of 1, 2 or 4 bytes says; afterwards the script starts just past
\* the data.
C35_PushTakesCountedBytes ==
    [][\A op \in PushOpcodes :
          (/\ Runs(op)
           /\ ~Inactive(ifstack)
           /\ Len(script) >= Header(op)
           /\ Len(script) >= Header(op) + LittleEndian(op, script)) =>
              \E count \in {LittleEndian(op, script)} :
                  /\ stack' = Append(stack, BytesItem(
                         SubSeq(script, Header(op) + 1, Header(op) + count)))
                  /\ script' = Drop(script, Header(op) + count)]_vars

\* PUSHDATA4 with the count 1 has pushed the byte of data and OP_1 after it
C35_Witness ==
    /\ input.scriptbinary = <<78, 1, 0, 0, 0, 7, 81>>
    /\ input.stack = <<>>
    /\ outcome = "returned"
    /\ opcode = 78
    /\ stack = <<BytesItem(<<7, 81>>)>>

\* the stack with its item n back from the top copied, or moved, to the top
Picked(below, n) == Append(below, below[Len(below) - n])
Rolled(below, n) ==
    SubSeq(below, 1, Len(below) - n - 1)
        \o SubSeq(below, Len(below) - n + 1, Len(below))
        \o <<below[Len(below) - n]>>

\* C36: PICK and ROLL pop the top item, a byte-vector as the push and
\* small-integer opcodes leave it, read it as the Script number n, and
\* copy (PICK) or move (ROLL) the item n back to the top, whenever there
\* are more than n items below: [x2, x1, x0] and n = 2 give
\* [x2, x1, x0, x2] and [x1, x0, x2].
C36_PickAndRollReachBack ==
    [][\A op \in {121, 122} :
          (/\ Runs(op)
           /\ stack /= <<>>
           /\ Top(stack).kind = "bytes"
           /\ number(Top(stack)).val >= 0
           /\ number(Top(stack)).val < Len(stack) - 1) =>
              \E n \in {number(Top(stack)).val} :
                  /\ error' = ""
                  /\ stack' = IF op = 121 THEN Picked(Pop(stack), n)
                              ELSE Rolled(Pop(stack), n)]_vars

\* what the code does with an operand of bytes: the operand is popped and
\* the subtraction -1 - operand raises TypeError
C36_BytesOperandRaises ==
    [][\A op \in {121, 122} :
          Runs(op) /\ stack /= <<>> /\ Top(stack).kind = "bytes" =>
              /\ error' = TypeError
              /\ outcome' = "raised"
              /\ stack' = Pop(stack)]_vars

\* with an operand that CHECKSIG left, True, the item one back is reached
C36_BoolOperandReaches ==
    [][\A op \in {121, 122} :
          (/\ Runs(op)
           /\ stack /= <<>>
           /\ Top(stack).kind = "bool"
           /\ number(Top(stack)).val < Len(stack) - 1) =>
              \E n \in {number(Top(stack)).val} :
                  /\ error' = ""
                  /\ stack' = IF op = 121 THEN Picked(Pop(stack), n)
                              ELSE Rolled(Pop(stack), n)]_vars

\* OP_2 PICK on [x2, x1, x0] has raised TypeError
C36_Witness ==
    /\ input.scriptbinary = <<82, 121>>
    /\ input.stack = <<BytesItem(<<12>>), BytesItem(<<11>>), BytesItem(<<10>>)>>
    /\ outcome = "raised"
    /\ error = TypeError
    /\ stack = input.stack

\* the two items on top of the stack are byte-vectors
TwoVectors ==
    /\ Len(stack) >= 2
    /\ Top(stack).kind = "bytes"
    /\ Top(Pop(stack)).kind = "bytes"

\* C37: OP_EQUAL pops two byte-vectors and pushes 1 if they are the same
\* bytes and 0 (the empty vector) if not, whatever their length;
\* OP_EQUALVERIFY pops them and goes on if they are the same bytes and
\* fails the script if not.
C37_EqualComparesBytes ==
    [][/\ Runs(135) /\ TwoVectors =>
             /\ error' = ""
             /\ stack' = Append(Pop(Pop(stack)),
                                IF Top(stack).val = Top(Pop(stack)).val
                                THEN BytesItem(<<1>>) ELSE BytesItem(<<>>))
       /\ Runs(136) /\ TwoVectors =>
             IF Top(stack).val = Top(Pop(stack)).val
             THEN error' = "" /\ stack' = Pop(Pop(stack))
             ELSE error' = TransactionInvalidError]_vars

\* what the code does: it compares the numbers the two vectors stand for
C37_EqualComparesNumbers ==
    [][/\ Runs(135) /\ TwoVectors =>
             /\ error' = ""
             /\ stack' = Append(Pop(Pop(stack)),
                            IF number(Top(stack)).val
                                   = number(Top(Pop(stack))).val
                            THEN BytesItem(<<1>>) ELSE BytesItem(<<>>))
       /\ Runs(136) /\ TwoVectors =>
             IF number(Top(stack)).val = number(Top(Pop(stack))).val
             THEN error' = "" /\ stack' = Pop(Pop(stack))
             ELSE error' = TransactionInvalidError]_vars

\* EQUALVERIFY has passed two hashes that differ in their fifth byte
C37_Witness ==
    /\ input.scriptbinary = <<136>>
    /\ input.stack = <<BytesItem(Hash(1)), BytesItem(Hash(2))>>
    /\ outcome = "returned"
    /\ error = ""
    /\ stack = <<>>

\* C38: BOOLAND and BOOLOR pop two items a and b and push one: 1 if both
\* are non-zero numbers (BOOLAND), or if one of them is (BOOLOR), and 0
\* (the empty vector) if not; the stack is one item shorter afterwards.
C38_BoolOpsPopTwoPushOne ==
    [][\A op \in {154, 155} :
          Runs(op) /\ TwoVectors =>
              \E a \in {number(Top(stack)).val /= 0},
                 b \in {number(Top(Pop(stack))).val /= 0} :
                  /\ error' = ""
                  /\ Len(stack') = Len(stack) - 1
                  /\ stack' = Append(Pop(Pop(stack)),
                         IF (op = 154 /\ a /\ b) \/ (op = 155 /\ (a \/ b))
                         THEN BytesItem(<<1>>) ELSE BytesItem(<<>>))]_vars

\* what the code does: `and` and `or` decide on the top item alone when
\* they can, and then the second item is not popped; the item pushed is
\* the number that decided, not 1
C38_BoolOpsShortCircuit ==
    [][\A op \in {154, 155} :
          Runs(op) /\ TwoVectors =>
              \E a \in {number(Top(stack)).val},
                 b \in {number(Top(Pop(stack))).val} :
                  /\ error' = ""
                  /\ stack' =
                       IF op = 154 /\ a = 0
                       THEN Append(Pop(stack), BytesItem(<<>>))
                       ELSE IF op = 155 /\ a /= 0
                       THEN Append(Pop(stack), BytesItem(bytevector(a)))
                       ELSE Append(Pop(Pop(stack)),
                                   BytesItem(bytevector(b)))]_vars

\* OP_1 OP_0 BOOLAND has left two items
C38_Witness ==
    /\ input.scriptbinary = <<81, 0, 154>>
    /\ input.stack = <<>>
    /\ outcome = "returned"
    /\ stack = <<BytesItem(<<1>>), BytesItem(<<>>)>>

\* C39: in an active branch TOALTSTACK moves the top of the data stack to
\* the top of the alt-stack and FROMALTSTACK moves the top of the alt-stack
\* back to the top of the data stack, so that the two in a row leave the
\* data stack as it was; in an inactive branch both do nothing.
C39_AltStackRoundTrip ==
    [][/\ Runs(107) /\ ~Inactive(ifstack) /\ stack /= <<>> =>
             /\ error' = ""
             /\ stack' = Pop(stack)
             /\ altstack' = Append(altstack, Top(stack))
       /\ Runs(108) /\ ~Inactive(ifstack) /\ altstack /= <<>> =>
             /\ error' = ""
             /\ stack' = Append(stack, Top(altstack))
             /\ altstack' = Pop(altstack)
       /\ (Runs(107) \/ Runs(108)) /\ Inactive(ifstack) =>
             /\ error' = ""
             /\ stack' = stack
             /\ altstack' = altstack]_vars

\* what the code does: TOALTSTACK is as claimed, FROMALTSTACK has a table
\* row of two elements, the second one the name 'op_fromaltstackop_nop'
C39_FromAltStackRaises ==
    [][/\ Runs(107) /\ ~Inactive(ifstack) /\ stack /= <<>> =>
             /\ error' = ""
             /\ stack' = Pop(stack)
             /\ altstack' = Append(altstack, Top(stack))
       /\ Runs(107) /\ Inactive(ifstack) =>
             error' = "" /\ stack' = stack /\ altstack' = altstack
       /\ Runs(108) =>
             /\ error' = IF Inactive(ifstack) THEN IndexError ELSE KeyError
             /\ outcome' = "raised"
             /\ stack' = stack
             /\ altstack' = altstack]_vars

\* TOALTSTACK FROMALTSTACK has stopped with the item on the alt-stack
C39_Witness ==
    /\ input.scriptbinary = <<107, 108>>
    /\ input.stack = <<BytesItem(<<7>>)>>
    /\ outcome = "raised"
    /\ error = KeyError
    /\ stack = <<>>
    /\ altstack = <<BytesItem(<<7>>)>>

----------------------------------------------------------------------------
\* Claims about the cache of previous transactions

\* C40: the cache never holds more transactions than its bound: an
\* insertion, by testall or by silent_search, of a transaction the full
\* cache does not hold drops the oldest entry, and a lookup of a
\* transaction the cache holds returns it, compares no transaction of the
\* block files and leaves the cache as it is.
C40_CacheStaysWithinBound ==
    [][/\ Len(testall'.cache) <= testall.maxlength
       /\ (/\ testall'.pc \in {"stored", "found"}
           /\ testall'.tx_hash \notin Range(testall.cache)
           /\ Len(testall.cache) = testall.maxlength) =>
              testall'.cache = Append(Tail(testall.cache), testall'.tx_hash)
       /\ (/\ testall'.pc = "found"
           /\ testall'.tx_hash \in Range(testall.cache)) =>
              /\ testall'.found = testall'.tx_hash
              /\ testall'.compared = 0
              /\ testall'.cache = testall.cache]_vars

\* what the code does: silent_search keeps a cache that is within the
\* bound within it, dropping the oldest entry, and does not scan on a hit;
\* the insertion of testall drops nothing
C40_OnlySearchEvicts ==
    [][/\ (testall'.pc = "found"
              /\ Len(testall.cache) <= testall.maxlength) =>
              /\ Len(testall'.cache) <= testall.maxlength
              /\ testall'.found = testall'.tx_hash
              /\ IF testall'.tx_hash \in Range(testall.cache)
                 THEN testall'.compared = 0
                          /\ testall'.cache = testall.cache
                 ELSE IF Len(testall.cache) = testall.maxlength
                 THEN testall'.cache = Append(Tail(testall.cache),
                                              testall'.tx_hash)
                 ELSE testall'.cache = Append(testall.cache,
                                              testall'.tx_hash)
       /\ testall'.pc = "stored" =>
              testall'.cache = CachePut(testall.cache, testall'.tx_hash)
       /\ (testall'.pc = "found"
              /\ testall'.tx_hash \notin Range(testall.cache)) =>
              Len(testall'.cache) >= Len(testall.cache) - 1]_vars

\* the default bound is never reached
C40_DefaultBoundHolds ==
    testall.maxlength = maxsize => Len(testall.cache) <= testall.maxlength

\* a cache bounded to one transaction holds three after insertions of
\* testall and a search
C40_Witness ==
    /\ testall.maxlength = 1
    /\ testall.pc = "found"
    /\ Len(testall.cache) = 3
====
